---- MODULE Spec2Model ----
(***************************************************************************)
(* Model of LoudnessDataStore (Source/Storage/LoudnessDataStore.cpp): a    *)
(* single-writer ring buffer of full-resolution loudness points plus       *)
(* mutex-protected LOD levels that the query side fills lazily.            *)
(*                                                                         *)
(* Time.  The store stamps point number n with n / updateRate seconds.     *)
(* The model measures time in units of 1 / (UnitsPerPoint * updateRate)    *)
(* seconds, so the timestamp of point n is n * UnitsPerPoint and a query   *)
(* may start or end between two points.  All the store's time arithmetic   *)
(* (division by the rate, truncation, ceiling) is carried out on these     *)
(* integers exactly as the code carries it out on doubles.                 *)
(*                                                                         *)
(* Loudness values are integers (floats that are exactly representable).   *)
(***************************************************************************)
EXTENDS Integers, Sequences, FiniteSets, TLC

\* ---------------------------------------------------------------- bounds
\* Capacity of the ring buffer, number of LOD levels and reduction factor
\* between consecutive levels.  LoudnessDataStore.cpp uses the three names
\* without fixing their values; the model gives them small values.
kRingBufferSize == 3
kLodLevels == 2
kLodFactor == 2
\* Time units per ingested point.
UnitsPerPoint == 2
\* addPoint calls per session (between two resets).
MaxPoints == 5
\* Largest maxPixels argument of a query.
MaxPixels == 2
\* addPoint calls while the two threads run interleaved.
MaxConcPoints == 4
\* Points ingested between two resets when the lifecycle is explored.
MaxLifePoints == 2

\* static constexpr int kMaxChannels / kBlocksPerMomentary / kBlocksPerShortTerm
kMaxChannels == 8
kBlocksPerMomentary == 4
kBlocksPerShortTerm == 30
\* samplesPerBlock of a meter that was never prepared (4800 in the source,
\* scaled to the sample rates below).
DefaultSamplesPerBlock == 2
\* Completed 100 ms blocks per measurement (between two resets).
MaxBlocks == 32
\* Frames per buffer passed to processBlock.
MaxBufferFrames == 2
\* Blocks completed per measurement when processBlock runs by steps.
MaxAudioBlocks == 1
\* addSample calls per MinMaxPoint before it is merged.
MaxSamples == 2
\* Sample rates and channel counts passed to prepare.
SampleRates == {10, 25}
ChannelCounts == {2, 4, 5, 6, 9}
\* The prepare calls made: each rate and each channel count occurs.
PrepareArgs == {<<25, 2>>, <<25, 4>>, <<10, 5>>, <<10, 6>>, <<25, 9>>}
\* Arguments of the prepare calls that run beside processBlock.
AudioPrepareArgs == {<<10, 2>>, <<25, 6>>}

\* (momentary, shortTerm) pairs the ingestion timer may pass to addPoint.
Inputs == {<<-20, -21>>, <<-10, -11>>}
\* (m, s) pairs passed to MinMaxPoint::addSample: the sentinel -100,
\* values just above it and ordinary loudness values.
SampleInputs == {0 - 100, 0 - 99, 0 - 20} \X {0 - 100, 0 - 30}

\* Query arguments <<startTime, endTime, maxPixels>>.
\* VeryEarly lies more than a ring-buffer duration before the first point,
\* AfterLast after the last timestamp a session can reach.
VeryEarly == 0 - (kRingBufferSize + 1) * UnitsPerPoint
AfterLast == MaxPoints * UnitsPerPoint
\* The arguments every call is judged on.
QueryStarts == {VeryEarly, 0, UnitsPerPoint + 1, AfterLast}
QueryEnds == {0 - 1, 2 * UnitsPerPoint, (MaxPoints - 1) * UnitsPerPoint,
              AfterLast + 1}
QueryArgs == (QueryStarts \X QueryEnds \X {1, MaxPixels})
             \cup {<<0, 2 * UnitsPerPoint, 0>>, <<1, 3 * UnitsPerPoint, 1>>}
\* The calls the UI thread makes.
Queries == {<<VeryEarly, AfterLast + 1, 1>>,
            <<VeryEarly, 0 - 1, 1>>,
            <<VeryEarly, 2 * UnitsPerPoint, MaxPixels>>,
            <<0, 2 * UnitsPerPoint, 1>>,
            <<0, (MaxPoints - 1) * UnitsPerPoint, 1>>,
            <<0, AfterLast + 1, MaxPixels>>,
            <<UnitsPerPoint + 1, (MaxPoints - 1) * UnitsPerPoint, 1>>,
            <<AfterLast, AfterLast + 1, 1>>,
            <<0, 2 * UnitsPerPoint, 0>>,
            <<UnitsPerPoint + 1, 0 - 1, 1>>}
\* Queries the UI thread issues while the ingestion timer is running.
ConcQueries == {<<0, AfterLast + 1, MaxPixels>>,
                <<VeryEarly, AfterLast + 1, 1>>}

VARIABLES
    ringBuffer,         \* [0..kRingBufferSize-1 -> LoudnessPoint]
    writeIndex,         \* atomic: next slot addPoint writes
    pointCount,         \* atomic: points ingested since reset
    currentTimestamp,   \* atomic: timestamp of the newest point
    lastProcessedIndex, \* next ring slot processRingBufferToLOD folds
    lodLevels,          \* [0..kLodLevels-1 -> LodLevel]
    lodMutex,           \* holder of lodMutex: "none" or "query"
    wpc,                \* ingestion thread: position inside addPoint
    wloc,               \* ingestion thread: locals of addPoint
    rpc,                \* query thread: position inside getDataForTimeRange
    rloc,               \* query thread: locals of getDataForTimeRange
    ingested,           \* history: points passed to addPoint since reset
    lastCall,           \* the call that returned last, with its arguments
    result,             \* RenderData returned by the last query
    timerRunning,       \* the processor's juce::Timer is started
    hpc,                \* host thread: position inside prepareToPlay
    numChannels,        \* meter: channels prepared for
    samplesPerBlock,    \* meter: frames per 100 ms block
    preFilterCoeffs,    \* meter: BiquadCoeffs of the shelving filter
    rlbFilterCoeffs,    \* meter: BiquadCoeffs of the high-pass filter
    preFilterStates,    \* meter: [0..kMaxChannels-1 -> BiquadState]
    rlbFilterStates,    \* meter: [0..kMaxChannels-1 -> BiquadState]
    channelWeights,     \* meter: [0..kMaxChannels-1 -> weight in 1/100]
    meanSquareBlocks,   \* meter: [0..kBlocksPerShortTerm-1 -> mean square]
    currentBlockIndex,  \* meter: ring slot the next block is stored in
    currentBlockSum,    \* meter: weighted squares of the block under way
    currentBlockSamples,\* meter: frames of the block under way
    momentaryLoudness,  \* meter: atomic readout
    shortTermLoudness,  \* meter: atomic readout
    fed,                \* history: the audio fed since prepare/reset
    processLock,        \* meter: times processLock is held (re-entrant)
    apc,                \* audio thread: position inside processBlock
    aloc,               \* audio thread: locals of processBlock
    cpc,                \* control thread: position inside prepare/reset
    cloc,               \* control thread: the call under way
    aggA,               \* a MinMaxPoint a and the samples it was built from
    aggB                \* a MinMaxPoint b and the samples it was built from

storeVars == <<ringBuffer, writeIndex, pointCount, currentTimestamp,
               lastProcessedIndex, lodLevels>>
threadVars == <<lodMutex, wpc, wloc, rpc, rloc>>
vars == <<ringBuffer, writeIndex, pointCount, currentTimestamp,
          lastProcessedIndex, lodLevels, lodMutex, wpc, wloc, rpc, rloc,
          ingested, lastCall, result, timerRunning, hpc,
          numChannels, samplesPerBlock, preFilterCoeffs, rlbFilterCoeffs,
          preFilterStates, rlbFilterStates, channelWeights, meanSquareBlocks,
          currentBlockIndex, currentBlockSum, currentBlockSamples,
          momentaryLoudness, shortTermLoudness, fed,
          processLock, apc, aloc, cpc, cloc, aggA, aggB>>
plugVars == <<timerRunning, hpc>>
meterVars == <<numChannels, samplesPerBlock, preFilterCoeffs, rlbFilterCoeffs,
               preFilterStates, rlbFilterStates, channelWeights,
               meanSquareBlocks, currentBlockIndex, currentBlockSum,
               currentBlockSamples, momentaryLoudness, shortTermLoudness, fed,
               processLock, apc, aloc, cpc, cloc>>
audioVars == <<processLock, apc, aloc, cpc, cloc>>
aggVars == <<aggA, aggB>>

Slots == 0 .. (kRingBufferSize - 1)
Levels == 0 .. (kLodLevels - 1)

Min(a, b) == IF a <= b THEN a ELSE b
Max(a, b) == IF a >= b THEN a ELSE b

\* static_cast<int64_t>(a / b) for b > 0: truncation toward zero.
TruncDiv(a, b) == IF a >= 0 THEN a \div b ELSE 0 - ((0 - a) \div b)
\* std::ceil(a / b) for b > 0.
CeilDiv(a, b) == 0 - ((0 - a) \div b)

RECURSIVE Pow(_, _)
Pow(b, e) == IF e = 0 THEN 1 ELSE b * Pow(b, e - 1)

LoudnessPoint(m, s, t) == [momentary |-> m, shortTerm |-> s, timestamp |-> t]

\* MinMaxPoint{100.0f, -100.0f, 100.0f, -100.0f, 0.0}
EmptyMinMax == [minMomentary |-> 100, maxMomentary |-> -100,
                minShortTerm |-> 100, maxShortTerm |-> -100,
                timestamp |-> 0]

\* Slip: factor is multiplied by kLodFactor before it is assigned.
InitialLevel_FactorFirst(k) == [reductionFactor |-> Pow(kLodFactor, k + 1),
                                points |-> <<>>,
                                accumulator |-> EmptyMinMax,
                                accumulatorCount |-> 0]

\* The state the constructor gives one LOD level.
InitialLevel(k) == [reductionFactor |-> Pow(kLodFactor, k),
                    points |-> <<>>,
                    accumulator |-> EmptyMinMax,
                    accumulatorCount |-> 0]

\* A default-constructed RenderData with zoomFactor set.
EmptyRender(zoom) == [points |-> <<>>, minMaxPoints |-> <<>>,
                      useMinMax |-> FALSE, lodLevel |-> 0,
                      zoomFactor |-> zoom]

\* Slip: the timestamp is taken from the count after the increment.
Timestamp_AfterIncrement(count) == (count + 1) * UnitsPerPoint

\* double timestamp = static_cast<double>(count) / updateRate
Timestamp(count) == count * UnitsPerPoint

\* ------------------------------------------------- processRingBufferToLOD
\* Slip: an unfinished bucket is kept as the last element of points and
\* updated there.
FoldIntoLevel_InPlace(lod, point) ==
    LET acc == [minMomentary |-> Min(lod.accumulator.minMomentary, point.momentary),
                maxMomentary |-> Max(lod.accumulator.maxMomentary, point.momentary),
                minShortTerm |-> Min(lod.accumulator.minShortTerm, point.shortTerm),
                maxShortTerm |-> Max(lod.accumulator.maxShortTerm, point.shortTerm),
                timestamp |-> point.timestamp]
        n == lod.accumulatorCount + 1
        open == IF lod.accumulatorCount = 0
                THEN Append(lod.points, acc)
                ELSE [lod.points EXCEPT ![Len(lod.points)] = acc]
    IN  IF n >= lod.reductionFactor
        THEN [lod EXCEPT !.points = open,
                         !.accumulator = EmptyMinMax,
                         !.accumulatorCount = 0]
        ELSE [lod EXCEPT !.points = open,
                         !.accumulator = acc,
                         !.accumulatorCount = n]

\* Slip: the bucket is finalized when the count exceeds the reduction
\* factor, one point late.
FoldIntoLevel_OnePointLate(lod, point) ==
    LET acc == [minMomentary |-> Min(lod.accumulator.minMomentary, point.momentary),
                maxMomentary |-> Max(lod.accumulator.maxMomentary, point.momentary),
                minShortTerm |-> Min(lod.accumulator.minShortTerm, point.shortTerm),
                maxShortTerm |-> Max(lod.accumulator.maxShortTerm, point.shortTerm),
                timestamp |-> point.timestamp]
        n == lod.accumulatorCount + 1
    IN  IF n > lod.reductionFactor
        THEN [lod EXCEPT !.points = Append(lod.points, acc),
                         !.accumulator = EmptyMinMax,
                         !.accumulatorCount = 0]
        ELSE [lod EXCEPT !.accumulator = acc,
                         !.accumulatorCount = n]

\* Body of the inner for loop for one level: fold point into the
\* accumulator, finalize the bucket when it is full.
FoldIntoLevel(lod, point) ==
    LET acc == [minMomentary |-> Min(lod.accumulator.minMomentary, point.momentary),
                maxMomentary |-> Max(lod.accumulator.maxMomentary, point.momentary),
                minShortTerm |-> Min(lod.accumulator.minShortTerm, point.shortTerm),
                maxShortTerm |-> Max(lod.accumulator.maxShortTerm, point.shortTerm),
                timestamp |-> point.timestamp]
        n == lod.accumulatorCount + 1
    IN  IF n >= lod.reductionFactor
        THEN [lod EXCEPT !.points = Append(lod.points, acc),
                         !.accumulator = EmptyMinMax,
                         !.accumulatorCount = 0]
        ELSE [lod EXCEPT !.accumulator = acc,
                         !.accumulatorCount = n]

\* One iteration of the while loop, all levels.
FoldPoint(levels, point) == [k \in Levels |-> FoldIntoLevel(levels[k], point)]

\* Slot the while loop moves to after folding slot last.
NextProcessedIndex(last) == (last + 1) % kRingBufferSize

\* The while loop: fold slots last, last+1, ... up to currentWrite.
RECURSIVE ProcessLoop(_, _, _, _)
ProcessLoop(levels, last, currentWrite, ring) ==
    IF last = currentWrite
    THEN [levels |-> levels, last |-> last]
    ELSE ProcessLoop(FoldPoint(levels, ring[last]),
                     NextProcessedIndex(last), currentWrite, ring)

\* Slip: lastProcessedIndex is not stored back after the loop.
ProcessRingBufferToLOD_NoAdvance(levels, last, currentWrite, count, ring) ==
    IF count = 0
    THEN [levels |-> levels, last |-> last]
    ELSE [levels |-> ProcessLoop(levels, last, currentWrite, ring).levels,
          last |-> last]

ProcessRingBufferToLOD(levels, last, currentWrite, count, ring) ==
    IF count = 0
    THEN [levels |-> levels, last |-> last]
    ELSE ProcessLoop(levels, last, currentWrite, ring)

\* ---------------------------------------------------------- selectLodLevel
\* Slip: the threshold is 1.0 points per pixel.
EffectivePPPReached_One(timeRange, maxPixels, factor) ==
    timeRange >= UnitsPerPoint * maxPixels * factor

\* effectivePPP >= 1.5 with effectivePPP =
\*   timeRange * updateRate / maxPixels / reductionFactor.
EffectivePPPReached(timeRange, maxPixels, factor) ==
    2 * timeRange >= 3 * UnitsPerPoint * maxPixels * factor

\* Slip: the test maxPixels <= 0 is missing.
SelectLodLevel_NoPixelTest(levels, timeRange, maxPixels) ==
    LET ok == {k \in Levels :
                 EffectivePPPReached(timeRange, maxPixels, levels[k].reductionFactor)}
    IN  IF ok = {} THEN 0
        ELSE CHOOSE k \in ok : \A j \in ok : j <= k

SelectLodLevel(levels, timeRange, maxPixels) ==
    IF maxPixels <= 0 THEN 0
    ELSE LET ok == {k \in Levels :
                     EffectivePPPReached(timeRange, maxPixels, levels[k].reductionFactor)}
         IN  IF ok = {} THEN 0
             ELSE CHOOSE k \in ok : \A j \in ok : j <= k

\* ---------------------------------------------- min/max downsampling loops
\* Slip: the division is not rounded up.
BucketSize_RoundDown(numPoints, targetPoints) ==
    Max(1, numPoints \div targetPoints)

\* bucketSize = (numPoints + targetPoints - 1) / targetPoints
BucketSize(numPoints, targetPoints) ==
    (numPoints + targetPoints - 1) \div targetPoints

\* Slip: i advances by bucketSize - 1, so that consecutive buckets share
\* an element and the last elements are left out.
BucketStarts_Overlapping(numPoints, bucketSize) ==
    [b \in 1 .. CeilDiv(numPoints, bucketSize) |-> (b - 1) * (bucketSize - 1)]

\* Start offsets of the buckets: i = 0, bucketSize, 2*bucketSize, ... < n.
BucketStarts(numPoints, bucketSize) ==
    [b \in 1 .. CeilDiv(numPoints, bucketSize) |-> (b - 1) * bucketSize]

RECURSIVE SeqMin(_), SeqMax(_)
SeqMin(s) == IF s = <<>> THEN 100 ELSE Min(Head(s), SeqMin(Tail(s)))
SeqMax(s) == IF s = <<>> THEN -100 ELSE Max(Head(s), SeqMax(Tail(s)))

\* ---------------------------------------------------------- getRecentPoints
\* Slip: the lower end of the window is not tested.
InTimeRange_NoStart(point, startTime, endTime) ==
    point.timestamp <= endTime

\* point.timestamp >= startTime && point.timestamp <= endTime
InTimeRange(point, startTime, endTime) ==
    point.timestamp >= startTime /\ point.timestamp <= endTime

\* Slip: the scan starts at slot 0 instead of the oldest slot.
ScanIndex_FromZero(count, currentWrite, i) ==
    i % kRingBufferSize

\* Ring slot the scan loop reads in iteration i (0-based).
ScanIndex(count, currentWrite, i) ==
    LET available == Min(count, kRingBufferSize)
        startIdx == (currentWrite + kRingBufferSize - available) % kRingBufferSize
    IN  (startIdx + i) % kRingBufferSize

\* Second half of getRecentPoints: tempPoints to RenderData.
RecentResult(tempPoints, maxPixels, res) ==
    LET numPoints == Len(tempPoints)
        targetPoints == maxPixels * 2
        bucketSize == BucketSize(numPoints, targetPoints)
        Bucket(i) ==
            LET end == Min(i + bucketSize, numPoints)
                part == SubSeq(tempPoints, i + 1, end)
            IN  [minMomentary |-> SeqMin([j \in 1 .. Len(part) |-> part[j].momentary]),
                 maxMomentary |-> SeqMax([j \in 1 .. Len(part) |-> part[j].momentary]),
                 minShortTerm |-> SeqMin([j \in 1 .. Len(part) |-> part[j].shortTerm]),
                 maxShortTerm |-> SeqMax([j \in 1 .. Len(part) |-> part[j].shortTerm]),
                 timestamp |-> tempPoints[((i + end) \div 2) + 1].timestamp]
    IN  IF numPoints = 0 THEN res
        ELSE IF numPoints <= targetPoints
        THEN [res EXCEPT !.points = tempPoints, !.useMinMax = FALSE]
        ELSE LET starts == BucketStarts(numPoints, bucketSize)
             IN  [res EXCEPT !.minMaxPoints = [b \in 1 .. Len(starts) |-> Bucket(starts[b])],
                             !.useMinMax = TRUE]

GetRecentPoints(startTime, endTime, maxPixels, res, ring, count, currentWrite) ==
    IF count = 0 THEN res
    ELSE
    LET available == Min(count, kRingBufferSize)
        scanned == [i \in 1 .. available |-> ring[ScanIndex(count, currentWrite, i - 1)]]
        Keep(p) == InTimeRange(p, startTime, endTime)
    IN  RecentResult(SelectSeq(scanned, Keep), maxPixels, res)

\* ------------------------------------------------------------- getLODPoints
GetLODPoints(startTime, endTime, maxPixels, res, levels) ==
    LET timeRange == endTime - startTime
        level == SelectLodLevel(levels, timeRange, maxPixels)
        res1 == [res EXCEPT !.lodLevel = level, !.zoomFactor = timeRange]
        lod == levels[level]
        size == Len(lod.points)
        \* effectiveRate = updateRate / reductionFactor
        unitsPerBucket == UnitsPerPoint * lod.reductionFactor
        startIdx == Max(0, TruncDiv(startTime, unitsPerBucket))
        endIdx == Min(size, CeilDiv(endTime, unitsPerBucket))
        numPoints == endIdx - startIdx
        targetPoints == maxPixels
        bucketSize == BucketSize(numPoints, targetPoints)
        Bucket(i) ==
            LET end == Min(i + bucketSize, numPoints)
                part == SubSeq(lod.points, startIdx + i + 1, startIdx + end)
                midIdx == startIdx + ((i + end) \div 2)
            IN  [minMomentary |-> SeqMin([j \in 1 .. Len(part) |-> part[j].minMomentary]),
                 maxMomentary |-> SeqMax([j \in 1 .. Len(part) |-> part[j].maxMomentary]),
                 minShortTerm |-> SeqMin([j \in 1 .. Len(part) |-> part[j].minShortTerm]),
                 maxShortTerm |-> SeqMax([j \in 1 .. Len(part) |-> part[j].maxShortTerm]),
                 timestamp |-> lod.points[Min(midIdx, size - 1) + 1].timestamp]
    IN  IF size = 0 THEN res1
        ELSE IF startIdx >= endIdx THEN res1
        ELSE IF numPoints <= targetPoints * 2
        THEN [res1 EXCEPT !.minMaxPoints = SubSeq(lod.points, startIdx + 1, endIdx),
                          !.useMinMax = TRUE]
        ELSE LET starts == BucketStarts(numPoints, bucketSize)
             IN  [res1 EXCEPT !.minMaxPoints = [b \in 1 .. Len(starts) |-> Bucket(starts[b])],
                              !.useMinMax = TRUE]

\* ------------------------------------------------------ getDataForTimeRange
\* startTime >= currentTime - kRingBufferSize / updateRate
UsesRingBuffer(startTime, currentTime) ==
    startTime >= currentTime - kRingBufferSize * UnitsPerPoint

\* maxPixels <= 0 || endTime <= startTime
Rejected(startTime, endTime, maxPixels) == maxPixels <= 0 \/ endTime <= startTime

\* Slip: the LOD levels are brought up to date before the arguments are
\* tested and the path is chosen.
GetDataForTimeRange_FoldFirst(st, startTime, endTime, maxPixels) ==
    LET res == EmptyRender(endTime - startTime)
        upd == ProcessRingBufferToLOD(st.lodLevels, st.lastProcessedIndex,
                                      st.writeIndex, st.pointCount, st.ringBuffer)
    IN  IF Rejected(startTime, endTime, maxPixels)
        THEN [result |-> res, path |-> "rejected", lod |-> upd]
        ELSE IF UsesRingBuffer(startTime, st.currentTimestamp)
        THEN [result |-> GetRecentPoints(startTime, endTime, maxPixels, res,
                                         st.ringBuffer, st.pointCount, st.writeIndex),
              path |-> "ring", lod |-> upd]
        ELSE [result |-> GetLODPoints(startTime, endTime, maxPixels, res, upd.levels),
              path |-> "lod", lod |-> upd]

\* The whole call on a store state st (a record of the store's fields):
\* the RenderData it returns and the LOD state it leaves.
GetDataForTimeRange(st, startTime, endTime, maxPixels) ==
    LET res == EmptyRender(endTime - startTime)
        same == [levels |-> st.lodLevels, last |-> st.lastProcessedIndex]
    IN  IF Rejected(startTime, endTime, maxPixels)
        THEN [result |-> res, path |-> "rejected", lod |-> same]
        ELSE IF UsesRingBuffer(startTime, st.currentTimestamp)
        THEN [result |-> GetRecentPoints(startTime, endTime, maxPixels, res,
                                         st.ringBuffer, st.pointCount, st.writeIndex),
              path |-> "ring", lod |-> same]
        ELSE LET upd == ProcessRingBufferToLOD(st.lodLevels, st.lastProcessedIndex,
                                               st.writeIndex, st.pointCount, st.ringBuffer)
             IN  [result |-> GetLODPoints(startTime, endTime, maxPixels, res, upd.levels),
                  path |-> "lod", lod |-> upd]

\* getCurrentTime()
GetCurrentTime == currentTimestamp

\* The store's fields as one record.
Store == [ringBuffer |-> ringBuffer, writeIndex |-> writeIndex,
          pointCount |-> pointCount, currentTimestamp |-> currentTimestamp,
          lastProcessedIndex |-> lastProcessedIndex, lodLevels |-> lodLevels]

\* What getDataForTimeRange(q) would return if called in the current state.
Answer(q) == GetDataForTimeRange(Store, q[1], q[2], q[3]).result

\* Record of a returned query in lastCall; repeat: the call before it was
\* the same query.
QueryCall(q, path) ==
    [op |-> "query", path |-> path, startTime |-> q[1], endTime |-> q[2],
     maxPixels |-> q[3],
     repeat |-> (lastCall.op = "query" /\ lastCall.startTime = q[1]
                 /\ lastCall.endTime = q[2] /\ lastCall.maxPixels = q[3])]

NoLocals == [none |-> TRUE]

\* ------------------------------------------------------ EBU128LoudnessMeter
\* Sample values are integers; channel weights and the block sum are in
\* hundredths (1.41 is 141); a mean square is the exact fraction
\* [num, den] in lowest terms; a loudness is -100 (minus100) or stands for
\* -0.691 + 10 log10(arg).
Channels == 0 .. (kMaxChannels - 1)
BlockSlots == 0 .. (kBlocksPerShortTerm - 1)

\* The one element of the set s. The({e(x) : x \in {v}}) is e(v) with v
\* worked out once: inside ENABLED, TLC works out a LET definition or an
\* operator's argument again at each of its uses.
The(s) == CHOOSE e \in s : TRUE

RECURSIVE GCD(_, _)
GCD(a, b) ==
    The({IF v[2] = 0 THEN v[1] ELSE GCD(v[2], v[1] % v[2]) : v \in {<<a, b>>}})

Rat(n, d) == The({[num |-> n \div g, den |-> d \div g] : g \in {GCD(n, d)}})
RatZero == [num |-> 0, den |-> 1]
RatAdd(x, y) ==
    The({Rat(v[1].num * v[2].den + v[2].num * v[1].den, v[1].den * v[2].den)
         : v \in {<<x, y>>}})
RatDiv(x, k) == The({Rat(v.num, v.den * k) : v \in {x}})

\* Sum of xs[lo] .. xs[hi]; the fractions are exact, so the order of the
\* additions does not matter and the range is summed by halves.
RECURSIVE RatSumRange(_, _, _)
RatSumRange(xs, lo, hi) ==
    The({IF v[1] > v[2] THEN RatZero
         ELSE IF v[1] = v[2] THEN xs[v[1]]
         ELSE RatAdd(RatSumRange(xs, v[1], v[3]), RatSumRange(xs, v[3] + 1, v[2]))
         : v \in {<<lo, hi, (lo + hi) \div 2>>}})

RatSum(xs) == The({RatSumRange(v, 1, Len(v)) : v \in {xs}})

\* BiquadCoeffs{} and BiquadState{}
DefaultCoeffs == [b0 |-> 1, b1 |-> 0, b2 |-> 0, a1 |-> 0, a2 |-> 0]
DefaultState == [z1 |-> 0, z2 |-> 0]

\* The coefficients are irrational functions of the sample rate (tan,
\* sqrt); integer coefficients of the same shape stand for them: a
\* high-frequency boost and a second-order high-pass.
CalculatePreFilterCoeffs(sampleRate) ==
    [b0 |-> 2, b1 |-> -1, b2 |-> 0, a1 |-> 0, a2 |-> 0]

CalculateRLBCoeffs(sampleRate) ==
    [b0 |-> 1, b1 |-> -2, b2 |-> 1, a1 |-> 0, a2 |-> 0]

\* processBiquad: the output and the state it leaves.
ProcessBiquad(input, coeffs, state) ==
    LET output == coeffs.b0 * input + state.z1
    IN  [output |-> output,
         state |-> [z1 |-> coeffs.b1 * input - coeffs.a1 * output + state.z2,
                    z2 |-> coeffs.b2 * input - coeffs.a2 * output]]

MinusHundred == [minus100 |-> TRUE, arg |-> RatZero]

\* Slip: the test sumMeanSquare <= 0 is missing.
CalculateLoudness_NoFloor(sumMeanSquare) ==
    [minus100 |-> FALSE, arg |-> sumMeanSquare]

\* calculateLoudness
CalculateLoudness(sumMeanSquare) ==
    The({IF x.num <= 0 THEN MinusHundred ELSE [minus100 |-> FALSE, arg |-> x]
         : x \in {sumMeanSquare}})

\* Slip: the Ls weight is applied from four channels on.
PreparedWeights_RearFromFour(numCh) ==
    [ch \in Channels |->
        IF ch = 3 /\ numCh >= 4 THEN 0
        ELSE IF ch = 4 /\ numCh >= 4 THEN 141
        ELSE IF ch = 5 /\ numCh >= 6 THEN 141
        ELSE 100]

\* Weights set by prepare for numCh channels.
PreparedWeights(numCh) ==
    [ch \in Channels |->
        IF ch = 3 /\ numCh >= 4 THEN 0
        ELSE IF ch = 4 /\ numCh >= 5 THEN 141
        ELSE IF ch = 5 /\ numCh >= 6 THEN 141
        ELSE 100]

\* Slip: the window starts at currentBlockIndex, the slot not yet written.
MomentaryIndex_NoStepBack(blockIndex, i) ==
    (blockIndex - i + kBlocksPerShortTerm) % kBlocksPerShortTerm

\* idx = (currentBlockIndex - 1 - i + kBlocksPerShortTerm) % kBlocksPerShortTerm
MomentaryIndex(blockIndex, i) ==
    (blockIndex - 1 - i + kBlocksPerShortTerm) % kBlocksPerShortTerm

\* momentarySum / kBlocksPerMomentary after the block index has advanced.
MomentaryMean(blocks, blockIndex) ==
    RatDiv(RatSum([i \in 1 .. kBlocksPerMomentary |->
                      blocks[MomentaryIndex(blockIndex, i - 1)]]),
           kBlocksPerMomentary)

\* Slip: the sum stops one slot short of the ring's end.
ShortTermMean_SkipLast(blocks) ==
    RatDiv(RatSum([i \in 1 .. (kBlocksPerShortTerm - 1) |-> blocks[i - 1]]),
           kBlocksPerShortTerm)

\* shortTermSum / kBlocksPerShortTerm
ShortTermMean(blocks) ==
    RatDiv(RatSum([i \in 1 .. kBlocksPerShortTerm |-> blocks[i - 1]]),
           kBlocksPerShortTerm)

\* Nothing fed yet; the buffers to come have bufferChannels channels.
FreshFed(bufferChannels) ==
    [frames |-> 0, changes |-> 0, last |-> "none",
     bufferChannels |-> bufferChannels,
     silentFrames |-> 0, signal |-> FALSE, completed |-> <<>>,
     stream |-> <<>>]

\* The member initialisers and the constructor.
ConstructedMeter ==
    [numChannels |-> 2,
     samplesPerBlock |-> DefaultSamplesPerBlock,
     preFilterCoeffs |-> DefaultCoeffs,
     rlbFilterCoeffs |-> DefaultCoeffs,
     preFilterStates |-> [ch \in Channels |-> DefaultState],
     rlbFilterStates |-> [ch \in Channels |-> DefaultState],
     channelWeights |-> [ch \in Channels |-> 100],
     meanSquareBlocks |-> [b \in BlockSlots |-> RatZero],
     currentBlockIndex |-> 0,
     currentBlockSum |-> 0,
     currentBlockSamples |-> 0,
     momentaryLoudness |-> MinusHundred,
     shortTermLoudness |-> MinusHundred,
     completed |-> <<>>]

\* Slip: the states of the RLB stage are not cleared.
ResetMeter_KeepRlbStates(m) ==
    [m EXCEPT !.preFilterStates = [ch \in Channels |-> DefaultState],
              !.meanSquareBlocks = [b \in BlockSlots |-> RatZero],
              !.currentBlockIndex = 0,
              !.currentBlockSum = 0,
              !.currentBlockSamples = 0,
              !.momentaryLoudness = MinusHundred,
              !.shortTermLoudness = MinusHundred,
              !.completed = <<>>]

\* reset() on the meter record m.
ResetMeter(m) ==
    [m EXCEPT !.preFilterStates = [ch \in Channels |-> DefaultState],
              !.rlbFilterStates = [ch \in Channels |-> DefaultState],
              !.meanSquareBlocks = [b \in BlockSlots |-> RatZero],
              !.currentBlockIndex = 0,
              !.currentBlockSum = 0,
              !.currentBlockSamples = 0,
              !.momentaryLoudness = MinusHundred,
              !.shortTermLoudness = MinusHundred,
              !.completed = <<>>]

\* prepare(sampleRate, maxBlockSize, channels) on the meter record m.
PrepareMeter(m, sampleRate, channels) ==
    LET numCh == Min(channels, kMaxChannels)
    IN  ResetMeter([m EXCEPT
            !.numChannels = numCh,
            !.preFilterCoeffs = CalculatePreFilterCoeffs(sampleRate),
            !.rlbFilterCoeffs = CalculateRLBCoeffs(sampleRate),
            \* static_cast<int>(sampleRate * 0.1)
            !.samplesPerBlock = TruncDiv(sampleRate, 10),
            !.channelWeights = PreparedWeights(numCh)])

RECURSIVE SumOver(_, _)
SumOver(f, n) == IF n = 0 THEN 0 ELSE f[n - 1] + SumOver(f, n - 1)

\* Slip: the ring index is not advanced.
CompleteBlock_NoAdvance(m) ==
    LET meanSquare == Rat(m.currentBlockSum, m.currentBlockSamples)
        blocks == [m.meanSquareBlocks EXCEPT ![m.currentBlockIndex] = meanSquare]
        blockIndex == m.currentBlockIndex
    IN  [m EXCEPT
            !.meanSquareBlocks = blocks,
            !.currentBlockIndex = blockIndex,
            !.currentBlockSum = 0,
            !.currentBlockSamples = 0,
            !.momentaryLoudness = CalculateLoudness(MomentaryMean(blocks, blockIndex)),
            !.shortTermLoudness = CalculateLoudness(ShortTermMean(blocks)),
            !.completed = Append(m.completed, meanSquare)]

\* Slip: the ring index advances before the mean square is stored.
CompleteBlock_AdvanceFirst(m) ==
    LET meanSquare == Rat(m.currentBlockSum, m.currentBlockSamples)
        blockIndex == (m.currentBlockIndex + 1) % kBlocksPerShortTerm
        blocks == [m.meanSquareBlocks EXCEPT ![blockIndex] = meanSquare]
    IN  [m EXCEPT
            !.meanSquareBlocks = blocks,
            !.currentBlockIndex = blockIndex,
            !.currentBlockSum = 0,
            !.currentBlockSamples = 0,
            !.momentaryLoudness = CalculateLoudness(MomentaryMean(blocks, blockIndex)),
            !.shortTermLoudness = CalculateLoudness(ShortTermMean(blocks)),
            !.completed = Append(m.completed, meanSquare)]

\* Lines 139-168: the block under way is complete.
CompleteBlock(m) ==
    The({The({[m EXCEPT
                 !.meanSquareBlocks = blocks,
                 !.currentBlockIndex = (m.currentBlockIndex + 1) % kBlocksPerShortTerm,
                 !.currentBlockSum = 0,
                 !.currentBlockSamples = 0,
                 !.momentaryLoudness =
                     CalculateLoudness(MomentaryMean(blocks,
                         (m.currentBlockIndex + 1) % kBlocksPerShortTerm)),
                 !.shortTermLoudness = CalculateLoudness(ShortTermMean(blocks)),
                 !.completed = Append(m.completed, meanSquare)]
              : blocks \in {[m.meanSquareBlocks EXCEPT
                                ![m.currentBlockIndex] = meanSquare]}})
         : meanSquare \in {Rat(m.currentBlockSum, m.currentBlockSamples)}})

\* Lines 121-168: one frame whose channels all carry the sample x, of
\* which the first channels channels are processed.
ProcessFrame(m, x, channels) ==
    The({The({The({The({IF m1.currentBlockSamples >= m1.samplesPerBlock
                        THEN CompleteBlock(m1) ELSE m1
        : m1 \in {[m EXCEPT
             !.preFilterStates = [ch \in Channels |->
                 IF ch < channels THEN pre[ch].state ELSE m.preFilterStates[ch]],
             !.rlbFilterStates = [ch \in Channels |->
                 IF ch < channels THEN rlb[ch].state ELSE m.rlbFilterStates[ch]],
             !.currentBlockSum = m.currentBlockSum + SumOver(weighted, channels),
             !.currentBlockSamples = m.currentBlockSamples + 1]}})
        : weighted \in {[ch \in Channels |->
             m.channelWeights[ch] * rlb[ch].output * rlb[ch].output]}})
        : rlb \in {[ch \in Channels |->
             ProcessBiquad(pre[ch].output, m.rlbFilterCoeffs,
                           m.rlbFilterStates[ch])]}})
        : pre \in {[ch \in Channels |->
             ProcessBiquad(x, m.preFilterCoeffs, m.preFilterStates[ch])]}})

\* Line 117 and lines 121-168: one frame of a buffer of bufferChannels
\* channels.
ProcessSample(m, x, bufferChannels) ==
    ProcessFrame(m, x, Min(bufferChannels, m.numChannels))

\* Locals of processBlock outside a call.
NoBuffer == [buffer |-> <<>>, frames |-> 0, steps |-> 0, channels |-> 0]

\* The sample loop of processBlock over the samples of one buffer.
RECURSIVE ProcessSamples(_, _, _)
ProcessSamples(m, samples, bufferChannels) ==
    IF samples = <<>> THEN m
    ELSE ProcessSamples(ProcessSample(m, Head(samples), bufferChannels),
                        Tail(samples), bufferChannels)

\* ---------------------------------- MinMaxPoint (LoudnessDataStore.h)
\* The aggregate type of the header: momentaryMin, momentaryMax,
\* shortTermMin, shortTermMax, timeMid.  Sample values are integers; -99
\* stands for the values addSample accepts and hasValid... rejects, those
\* above -100 and not above -99.

\* MinMaxPoint::reset() and the default member initializers.
FreshMinMaxPoint == [momentaryMin |-> 100, momentaryMax |-> -100,
                     shortTermMin |-> 100, shortTermMax |-> -100,
                     timeMid |-> 0]

\* hasValidMomentary() and hasValidShortTerm()
HasValidMomentary(p) == p.momentaryMax > -99
HasValidShortTerm(p) == p.shortTermMax > -99

\* addSample(m, s, t) on the aggregate p.
AddSample(p, m, s, t) ==
    [momentaryMin |-> IF m > -100 THEN Min(p.momentaryMin, m) ELSE p.momentaryMin,
     momentaryMax |-> IF m > -100 THEN Max(p.momentaryMax, m) ELSE p.momentaryMax,
     shortTermMin |-> IF s > -100 THEN Min(p.shortTermMin, s) ELSE p.shortTermMin,
     shortTermMax |-> IF s > -100 THEN Max(p.shortTermMax, s) ELSE p.shortTermMax,
     timeMid |-> t]

\* p.merge(other): the aggregate p afterwards.
Merge(p, other) ==
    [momentaryMin |-> IF HasValidMomentary(other)
                      THEN IF HasValidMomentary(p)
                           THEN Min(p.momentaryMin, other.momentaryMin)
                           ELSE other.momentaryMin
                      ELSE p.momentaryMin,
     momentaryMax |-> IF HasValidMomentary(other)
                      THEN IF HasValidMomentary(p)
                           THEN Max(p.momentaryMax, other.momentaryMax)
                           ELSE other.momentaryMax
                      ELSE p.momentaryMax,
     shortTermMin |-> IF HasValidShortTerm(other)
                      THEN IF HasValidShortTerm(p)
                           THEN Min(p.shortTermMin, other.shortTermMin)
                           ELSE other.shortTermMin
                      ELSE p.shortTermMin,
     shortTermMax |-> IF HasValidShortTerm(other)
                      THEN IF HasValidShortTerm(p)
                           THEN Max(p.shortTermMax, other.shortTermMax)
                           ELSE other.shortTermMax
                      ELSE p.shortTermMax,
     timeMid |-> p.timeMid]

\* A default-constructed aggregate, no sample added, not merged.
FreshAggregate == [point |-> FreshMinMaxPoint, samples |-> <<>>, merged |-> FALSE]

\* ------------------------------------------------------------------ actions
\* Constructor: factors 1, kLodFactor, ...; ring slots {-100, -100, 0}.
Init ==
    /\ ringBuffer = [i \in Slots |-> LoudnessPoint(-100, -100, 0)]
    /\ writeIndex = 0
    /\ pointCount = 0
    /\ currentTimestamp = 0
    /\ lastProcessedIndex = 0
    /\ lodLevels = [k \in Levels |-> InitialLevel(k)]
    /\ lodMutex = "none"
    /\ wpc = "idle"
    /\ wloc = NoLocals
    /\ rpc = "idle"
    /\ rloc = NoLocals
    /\ ingested = {}
    /\ lastCall = [op |-> "construct"]
    /\ result = EmptyRender(0)
    /\ timerRunning = FALSE
    /\ hpc = "idle"
    /\ numChannels = ConstructedMeter.numChannels
    /\ samplesPerBlock = ConstructedMeter.samplesPerBlock
    /\ preFilterCoeffs = ConstructedMeter.preFilterCoeffs
    /\ rlbFilterCoeffs = ConstructedMeter.rlbFilterCoeffs
    /\ preFilterStates = ConstructedMeter.preFilterStates
    /\ rlbFilterStates = ConstructedMeter.rlbFilterStates
    /\ channelWeights = ConstructedMeter.channelWeights
    /\ meanSquareBlocks = ConstructedMeter.meanSquareBlocks
    /\ currentBlockIndex = ConstructedMeter.currentBlockIndex
    /\ currentBlockSum = ConstructedMeter.currentBlockSum
    /\ currentBlockSamples = ConstructedMeter.currentBlockSamples
    /\ momentaryLoudness = ConstructedMeter.momentaryLoudness
    /\ shortTermLoudness = ConstructedMeter.shortTermLoudness
    /\ fed = FreshFed(2)
    /\ processLock = 0
    /\ apc = "idle"
    /\ aloc = NoBuffer
    /\ cpc = "idle"
    /\ cloc = [call |-> "none"]
    /\ aggA = FreshAggregate
    /\ aggB = FreshAggregate

\* Slip: points.clear() is missing.
ResetLevel_KeepPoints(lod) == [lod EXCEPT !.accumulator = EmptyMinMax,
                                          !.accumulatorCount = 0]

\* Slip: accumulatorCount is not set back to 0.
ResetLevel_KeepCount(lod) == [lod EXCEPT !.points = <<>>,
                                         !.accumulator = EmptyMinMax]

\* level.points.clear(); accumulator and accumulatorCount reset.
ResetLevel(lod) == [lod EXCEPT !.points = <<>>,
                               !.accumulator = EmptyMinMax,
                               !.accumulatorCount = 0]

\* reset(), called with no addPoint or query in flight.
Reset ==
    /\ wpc = "idle" /\ rpc = "idle" /\ lodMutex = "none"
    /\ writeIndex' = 0
    /\ pointCount' = 0
    /\ currentTimestamp' = 0
    /\ lastProcessedIndex' = 0
    /\ lodLevels' = [k \in Levels |-> ResetLevel(lodLevels[k])]
    /\ ingested' = {}
    /\ lastCall' = [op |-> "reset"]
    /\ UNCHANGED <<plugVars, aggVars, meterVars, ringBuffer, result, threadVars>>

\* addPoint() running alone.
AddPoint(momentary, shortTerm) ==
    /\ wpc = "idle" /\ rpc = "idle"
    /\ pointCount < MaxPoints
    /\ LET count == pointCount
           timestamp == Timestamp(count)
           idx == writeIndex
       IN  /\ ringBuffer' = [ringBuffer EXCEPT ![idx] = LoudnessPoint(momentary, shortTerm, timestamp)]
           /\ writeIndex' = (idx + 1) % kRingBufferSize
           /\ pointCount' = pointCount + 1
           /\ currentTimestamp' = timestamp
           /\ ingested' = ingested \cup {LoudnessPoint(momentary, shortTerm, timestamp)}
    /\ lastCall' = [op |-> "addPoint"]
    /\ UNCHANGED <<plugVars, aggVars, meterVars, lastProcessedIndex, lodLevels, result, threadVars>>

\* getDataForTimeRange() running alone.
Query(q) ==
    /\ wpc = "idle" /\ rpc = "idle"
    /\ LET r == GetDataForTimeRange(Store, q[1], q[2], q[3])
       IN  /\ lodLevels' = r.lod.levels
           /\ lastProcessedIndex' = r.lod.last
           /\ result' = r.result
           /\ lastCall' = QueryCall(q, r.path)
    /\ UNCHANGED <<plugVars, aggVars, meterVars, ringBuffer, writeIndex, pointCount, currentTimestamp,
                   ingested, threadVars>>

Next ==
    \/ Reset
    \/ \E in \in Inputs : AddPoint(in[1], in[2])
    \/ \E q \in Queries : Query(q)

Spec == Init /\ [][Next]_vars

\* ------------------------------------------- addPoint, one step per access
\* Lines 46-49: load pointCount, compute the timestamp, load writeIndex.
AddPointBegin(momentary, shortTerm) ==
    /\ wpc = "idle"
    /\ pointCount < MaxConcPoints
    /\ wloc' = [point |-> LoudnessPoint(momentary, shortTerm, Timestamp(pointCount)),
                idx |-> writeIndex, steps |-> 0]
    /\ ingested' = ingested \cup {LoudnessPoint(momentary, shortTerm, Timestamp(pointCount))}
    /\ wpc' = "write"
    /\ UNCHANGED <<plugVars, aggVars, meterVars, storeVars, lodMutex, rpc, rloc, lastCall, result>>

\* The slot while the struct assignment of line 51 is under way: the
\* fields in done hold the new point's values, the others the old ones.
PartlyWritten(old, new, done) ==
    [f \in {"momentary", "shortTerm", "timestamp"} |->
        IF f \in done THEN new[f] ELSE old[f]]

\* Line 51, first part: some fields of the slot are written.
AddPointWriteBegin ==
    /\ wpc = "write"
    /\ \E done \in SUBSET {"momentary", "shortTerm", "timestamp"} :
          ringBuffer' = [ringBuffer EXCEPT ![wloc.idx] =
                            PartlyWritten(ringBuffer[wloc.idx], wloc.point, done)]
    /\ wpc' = "writing"
    /\ wloc' = [wloc EXCEPT !.steps = wloc.steps + 1]
    /\ UNCHANGED <<plugVars, aggVars, meterVars, writeIndex, pointCount, currentTimestamp, lastProcessedIndex,
                   lodLevels, lodMutex, rpc, rloc, ingested, lastCall, result>>

\* Line 51, completed: the slot holds the new point.
AddPointWriteEnd ==
    /\ wpc = "writing"
    /\ ringBuffer' = [ringBuffer EXCEPT ![wloc.idx] = wloc.point]
    /\ wpc' = "storeIndex"
    /\ wloc' = [wloc EXCEPT !.steps = wloc.steps + 1]
    /\ UNCHANGED <<plugVars, aggVars, meterVars, writeIndex, pointCount, currentTimestamp, lastProcessedIndex,
                   lodLevels, lodMutex, rpc, rloc, ingested, lastCall, result>>

\* Slip: the index is published under lodMutex.
AddPointStoreIndex_Locked ==
    /\ wpc = "storeIndex"
    /\ lodMutex = "none"
    /\ writeIndex' = (wloc.idx + 1) % kRingBufferSize
    /\ wpc' = "addCount"
    /\ wloc' = [wloc EXCEPT !.steps = wloc.steps + 1]
    /\ UNCHANGED <<plugVars, aggVars, meterVars, ringBuffer, pointCount, currentTimestamp, lastProcessedIndex,
                   lodLevels, lodMutex, rpc, rloc, ingested, lastCall, result>>

\* Lines 53-54: writeIndex.store(nextIdx, release).
AddPointStoreIndex ==
    /\ wpc = "storeIndex"
    /\ writeIndex' = (wloc.idx + 1) % kRingBufferSize
    /\ wpc' = "addCount"
    /\ wloc' = [wloc EXCEPT !.steps = wloc.steps + 1]
    /\ UNCHANGED <<plugVars, aggVars, meterVars, ringBuffer, pointCount, currentTimestamp, lastProcessedIndex,
                   lodLevels, lodMutex, rpc, rloc, ingested, lastCall, result>>

\* Line 55: pointCount.fetch_add(1).
AddPointFetchAdd ==
    /\ wpc = "addCount"
    /\ pointCount' = pointCount + 1
    /\ wpc' = "storeTime"
    /\ wloc' = [wloc EXCEPT !.steps = wloc.steps + 1]
    /\ UNCHANGED <<plugVars, aggVars, meterVars, ringBuffer, writeIndex, currentTimestamp, lastProcessedIndex,
                   lodLevels, lodMutex, rpc, rloc, ingested, lastCall, result>>

\* Line 56: currentTimestamp.store(timestamp, release); addPoint returns.
AddPointStoreTime ==
    /\ wpc = "storeTime"
    /\ currentTimestamp' = wloc.point.timestamp
    /\ wpc' = "idle"
    /\ wloc' = NoLocals
    /\ lastCall' = [op |-> "addPoint"]
    /\ UNCHANGED <<plugVars, aggVars, meterVars, ringBuffer, writeIndex, pointCount, lastProcessedIndex,
                   lodLevels, lodMutex, rpc, rloc, ingested, result>>

\* Any step of an addPoint call that is under way.
AddPointStep ==
    \/ AddPointWriteBegin
    \/ AddPointWriteEnd
    \/ AddPointStoreIndex
    \/ AddPointFetchAdd
    \/ AddPointStoreTime

\* ------------------------------- getDataForTimeRange, one step per access
\* The query returns res.
QueryReturn(q, path, res) ==
    /\ result' = res
    /\ lastCall' = QueryCall(q, path)
    /\ rpc' = "idle"
    /\ rloc' = NoLocals

\* Lines 240-251: argument test, load currentTimestamp, choose the path.
QueryBegin(q) ==
    /\ rpc = "idle"
    /\ IF Rejected(q[1], q[2], q[3])
       THEN QueryReturn(q, "rejected", EmptyRender(q[2] - q[1]))
       ELSE /\ rpc' = IF UsesRingBuffer(q[1], currentTimestamp)
                      THEN "recentCount" ELSE "lock"
            /\ rloc' = [q |-> q]
            /\ UNCHANGED <<lastCall, result>>
    /\ UNCHANGED <<plugVars, aggVars, meterVars, storeVars, lodMutex, wpc, wloc, ingested>>

\* Lines 115-116: load pointCount; return if it is 0.
RecentLoadCount ==
    /\ rpc = "recentCount"
    /\ IF pointCount = 0
       THEN QueryReturn(rloc.q, "ring", EmptyRender(rloc.q[2] - rloc.q[1]))
       ELSE /\ rpc' = "recentWrite"
            /\ rloc' = [q |-> rloc.q, count |-> pointCount]
            /\ UNCHANGED <<lastCall, result>>
    /\ UNCHANGED <<plugVars, aggVars, meterVars, storeVars, lodMutex, wpc, wloc, ingested>>

\* Line 118: load writeIndex.
RecentLoadWrite ==
    /\ rpc = "recentWrite"
    /\ rpc' = "recentScan"
    /\ rloc' = [q |-> rloc.q, count |-> rloc.count, currentWrite |-> writeIndex,
                i |-> 0, tempPoints |-> <<>>]
    /\ UNCHANGED <<plugVars, aggVars, meterVars, storeVars, lodMutex, wpc, wloc, ingested, lastCall, result>>

\* Lines 128-137: one iteration of the scan loop reads one slot.
RecentScan ==
    /\ rpc = "recentScan"
    /\ rloc.i < Min(rloc.count, kRingBufferSize)
    /\ LET point == ringBuffer[ScanIndex(rloc.count, rloc.currentWrite, rloc.i)]
       IN  rloc' = [rloc EXCEPT !.i = rloc.i + 1,
                                !.tempPoints =
                                    IF InTimeRange(point, rloc.q[1], rloc.q[2])
                                    THEN Append(rloc.tempPoints, point)
                                    ELSE rloc.tempPoints]
    /\ UNCHANGED <<plugVars, aggVars, meterVars, storeVars, lodMutex, wpc, wloc, rpc, ingested, lastCall, result>>

\* Lines 139-172 after the loop: build the RenderData and return.
RecentFinish ==
    /\ rpc = "recentScan"
    /\ rloc.i >= Min(rloc.count, kRingBufferSize)
    /\ QueryReturn(rloc.q, "ring",
                   RecentResult(rloc.tempPoints, rloc.q[3],
                                EmptyRender(rloc.q[2] - rloc.q[1])))
    /\ UNCHANGED <<plugVars, aggVars, meterVars, storeVars, lodMutex, wpc, wloc, ingested>>

\* Line 259: std::lock_guard lock(lodMutex).
LodLock ==
    /\ rpc = "lock"
    /\ lodMutex = "none"
    /\ lodMutex' = "query"
    /\ rpc' = "procWrite"
    /\ UNCHANGED <<plugVars, aggVars, meterVars, storeVars, wpc, wloc, rloc, ingested, lastCall, result>>

\* Line 61: load writeIndex.
ProcLoadWrite ==
    /\ rpc = "procWrite"
    /\ rpc' = "procCount"
    /\ rloc' = [q |-> rloc.q, currentWrite |-> writeIndex]
    /\ UNCHANGED <<plugVars, aggVars, meterVars, storeVars, lodMutex, wpc, wloc, ingested, lastCall, result>>

\* Lines 62-64: load pointCount; skip the loop if it is 0.
ProcLoadCount ==
    /\ rpc = "procCount"
    /\ rpc' = IF pointCount = 0 THEN "lodPoints" ELSE "procLoop"
    /\ UNCHANGED <<plugVars, aggVars, meterVars, storeVars, lodMutex, wpc, wloc, rloc, ingested, lastCall, result>>

\* Lines 67-92: one iteration of the while loop reads and folds one slot.
ProcStep ==
    /\ rpc = "procLoop"
    /\ IF lastProcessedIndex # rloc.currentWrite
       THEN /\ lodLevels' = FoldPoint(lodLevels, ringBuffer[lastProcessedIndex])
            /\ lastProcessedIndex' = NextProcessedIndex(lastProcessedIndex)
            /\ rpc' = rpc
       ELSE /\ rpc' = "lodPoints"
            /\ UNCHANGED <<lodLevels, lastProcessedIndex>>
    /\ UNCHANGED <<plugVars, aggVars, meterVars, ringBuffer, writeIndex, pointCount, currentTimestamp,
                   lodMutex, wpc, wloc, rloc, ingested, lastCall, result>>

\* Lines 261-264: getLODPoints, unlock, return.
LodFinish ==
    /\ rpc = "lodPoints"
    /\ QueryReturn(rloc.q, "lod",
                   GetLODPoints(rloc.q[1], rloc.q[2], rloc.q[3],
                                EmptyRender(rloc.q[2] - rloc.q[1]), lodLevels))
    /\ lodMutex' = "none"
    /\ UNCHANGED <<plugVars, aggVars, meterVars, storeVars, wpc, wloc, ingested>>

\* One ingestion thread and one query thread, interleaved access by access.
NextConc ==
    \/ \E in \in Inputs : AddPointBegin(in[1], in[2])
    \/ AddPointStep
    \/ \E q \in ConcQueries : QueryBegin(q)
    \/ RecentLoadCount
    \/ RecentLoadWrite
    \/ RecentScan
    \/ RecentFinish
    \/ LodLock
    \/ ProcLoadWrite
    \/ ProcLoadCount
    \/ ProcStep
    \/ LodFinish

SpecConc == Init /\ [][NextConc]_vars

\* ------------------------------------------------- the plugin's lifecycle
\* prepareToPlay, line 35: loudnessMeter.prepare(); dataStore.reset() is
\* entered next.
PrepareToPlayBegin ==
    /\ hpc = "idle"
    /\ hpc' = "resetCounters"
    /\ UNCHANGED <<aggVars, meterVars, storeVars, threadVars, ingested, lastCall, result, timerRunning>>

\* reset(), lines 29-32: the three atomics and lastProcessedIndex are zeroed.
StoreResetCounters ==
    /\ hpc = "resetCounters"
    /\ writeIndex' = 0
    /\ pointCount' = 0
    /\ currentTimestamp' = 0
    /\ lastProcessedIndex' = 0
    /\ hpc' = "resetLevels"
    /\ UNCHANGED <<aggVars, meterVars, ringBuffer, lodLevels, threadVars, ingested, lastCall,
                   result, timerRunning>>

\* reset(), lines 34-40: every level is cleared under lodMutex.
StoreResetLevels ==
    /\ hpc = "resetLevels"
    /\ lodMutex = "none"
    /\ lodLevels' = [k \in Levels |-> ResetLevel(lodLevels[k])]
    /\ ingested' = {}
    /\ lastCall' = [op |-> "reset"]
    /\ hpc' = "startTimer"
    /\ UNCHANGED <<aggVars, meterVars, ringBuffer, writeIndex, pointCount, currentTimestamp,
                   lastProcessedIndex, threadVars, result, timerRunning>>

\* prepareToPlay, line 39: startTimerHz().
PrepareToPlayStartTimer ==
    /\ hpc = "startTimer"
    /\ timerRunning' = TRUE
    /\ hpc' = "idle"
    /\ UNCHANGED <<aggVars, meterVars, storeVars, threadVars, ingested, lastCall, result>>

\* releaseResources: stopTimer(); loudnessMeter.reset().
ReleaseResources ==
    /\ hpc = "idle"
    /\ timerRunning' = FALSE
    /\ UNCHANGED <<aggVars, meterVars, storeVars, threadVars, ingested, lastCall, result, hpc>>

\* timerCallback on the message thread while the timer is started: the
\* two readouts are passed to addPoint, which loads pointCount and
\* writeIndex (lines 46-49).
TimerCallback(momentary, shortTerm) ==
    /\ timerRunning
    /\ rpc = "idle"
    /\ pointCount < MaxLifePoints
    /\ AddPointBegin(momentary, shortTerm)

\* The rest of addPoint (lines 51-56) and the return of timerCallback.
TimerCallbackReturn ==
    /\ wpc = "write"
    /\ ringBuffer' = [ringBuffer EXCEPT ![wloc.idx] = wloc.point]
    /\ writeIndex' = (wloc.idx + 1) % kRingBufferSize
    /\ pointCount' = pointCount + 1
    /\ currentTimestamp' = wloc.point.timestamp
    /\ wpc' = "idle"
    /\ wloc' = NoLocals
    /\ lastCall' = [op |-> "addPoint"]
    /\ UNCHANGED <<plugVars, aggVars, meterVars, lastProcessedIndex, lodLevels, lodMutex, rpc, rloc,
                   ingested, result>>

\* A query of the display, on the message thread: argument test and
\* choice of the path (lines 240-251).
DisplayQuery(q) ==
    /\ wpc = "idle"
    /\ QueryBegin(q)

\* The rest of the query on the path chosen: getRecentPoints, or
\* processRingBufferToLOD and getLODPoints under lodMutex.
DisplayQueryReturn ==
    /\ rpc \in {"recentCount", "lock"}
    /\ LET q == rloc.q
           res == EmptyRender(q[2] - q[1])
           upd == ProcessRingBufferToLOD(lodLevels, lastProcessedIndex,
                                         writeIndex, pointCount, ringBuffer)
       IN  IF rpc = "recentCount"
           THEN /\ QueryReturn(q, "ring",
                               GetRecentPoints(q[1], q[2], q[3], res,
                                               ringBuffer, pointCount, writeIndex))
                /\ UNCHANGED <<lodLevels, lastProcessedIndex>>
           ELSE /\ lodMutex = "none"
                /\ lodLevels' = upd.levels
                /\ lastProcessedIndex' = upd.last
                /\ QueryReturn(q, "lod",
                               GetLODPoints(q[1], q[2], q[3], res, upd.levels))
    /\ UNCHANGED <<plugVars, aggVars, meterVars, ringBuffer, writeIndex, pointCount, currentTimestamp,
                   lodMutex, wpc, wloc, ingested>>

NextLife ==
    \/ PrepareToPlayBegin
    \/ StoreResetCounters
    \/ StoreResetLevels
    \/ PrepareToPlayStartTimer
    \/ ReleaseResources
    \/ \E in \in Inputs : TimerCallback(in[1], in[2])
    \/ TimerCallbackReturn
    \/ \E q \in ConcQueries : DisplayQuery(q)
    \/ DisplayQueryReturn

SpecLife == Init /\ [][NextLife]_vars

\* ------------------------------------------------------ the meter's calls
\* The meter's fields as one record, with the blocks completed so far.
Meter ==
    [numChannels |-> numChannels,
     samplesPerBlock |-> samplesPerBlock,
     preFilterCoeffs |-> preFilterCoeffs,
     rlbFilterCoeffs |-> rlbFilterCoeffs,
     preFilterStates |-> preFilterStates,
     rlbFilterStates |-> rlbFilterStates,
     channelWeights |-> channelWeights,
     meanSquareBlocks |-> meanSquareBlocks,
     currentBlockIndex |-> currentBlockIndex,
     currentBlockSum |-> currentBlockSum,
     currentBlockSamples |-> currentBlockSamples,
     momentaryLoudness |-> momentaryLoudness,
     shortTermLoudness |-> shortTermLoudness,
     completed |-> fed.completed]

\* The meter's fields become those of the record m.
SetMeter(m) ==
    /\ numChannels' = m.numChannels
    /\ samplesPerBlock' = m.samplesPerBlock
    /\ preFilterCoeffs' = m.preFilterCoeffs
    /\ rlbFilterCoeffs' = m.rlbFilterCoeffs
    /\ preFilterStates' = m.preFilterStates
    /\ rlbFilterStates' = m.rlbFilterStates
    /\ channelWeights' = m.channelWeights
    /\ meanSquareBlocks' = m.meanSquareBlocks
    /\ currentBlockIndex' = m.currentBlockIndex
    /\ currentBlockSum' = m.currentBlockSum
    /\ currentBlockSamples' = m.currentBlockSamples
    /\ momentaryLoudness' = m.momentaryLoudness
    /\ shortTermLoudness' = m.shortTermLoudness

\* prepare(sampleRate, maxBlockSize, channels); the host's buffers have
\* channels channels from now on.
Prepare(sampleRate, channels) ==
    /\ SetMeter(PrepareMeter(Meter, sampleRate, channels))
    /\ fed' = FreshFed(channels)
    /\ lastCall' = [op |-> "prepare", sampleRate |-> sampleRate, channels |-> channels]
    /\ UNCHANGED <<storeVars, threadVars, ingested, result, plugVars, aggVars, audioVars>>

\* reset()
MeterReset ==
    /\ SetMeter(ResetMeter(Meter))
    /\ fed' = FreshFed(fed.bufferChannels)
    /\ lastCall' = [op |-> "meterReset"]
    /\ UNCHANGED <<storeVars, threadVars, ingested, result, plugVars, aggVars, audioVars>>

\* Buffers: 1 .. MaxBufferFrames frames, each silence or tone.
Buffers == UNION {[1 .. n -> {"silence", "tone"}] : n \in 1 .. MaxBufferFrames}

\* Sample of frame number n: 0 in silence, a tone alternating 1, -1.
SampleOf(level, n) ==
    IF level = "silence" THEN 0 ELSE IF n % 2 = 0 THEN 1 ELSE 0 - 1

\* Changes between silence and tone when buffer follows a frame of level last.
RECURSIVE ChangesIn(_, _)
ChangesIn(last, buffer) ==
    IF buffer = <<>> THEN 0
    ELSE (IF last \in {"none", Head(buffer)} THEN 0 ELSE 1)
             + ChangesIn(Head(buffer), Tail(buffer))

\* The audio of one measurement is silence or a tone throughout, or
\* changes once from one to the other.
OneChangeAtMost(changes) == changes \in {0, 1}

\* Silent frames at the end of buffer.
RECURSIVE TrailingSilence(_)
TrailingSilence(buffer) ==
    IF buffer = <<>> \/ buffer[Len(buffer)] = "tone" THEN 0
    ELSE 1 + TrailingSilence(SubSeq(buffer, 1, Len(buffer) - 1))

\* Slip: each call starts a new block, dropping the samples accumulated
\* by the call before.
ProcessBlock_RestartBlock(buffer) ==
    /\ Len(fed.completed) < MaxBlocks
    /\ OneChangeAtMost(fed.changes + ChangesIn(fed.last, buffer))
    /\ LET samples == [i \in 1 .. Len(buffer) |->
                          SampleOf(buffer[i], fed.frames + i - 1)]
           m == ProcessSamples([Meter EXCEPT !.currentBlockSum = 0,
                                             !.currentBlockSamples = 0],
                               samples, fed.bufferChannels)
           silent == TrailingSilence(buffer)
       IN  /\ SetMeter(m)
           /\ fed' = [frames |-> fed.frames + Len(buffer),
                      changes |-> fed.changes + ChangesIn(fed.last, buffer),
                      last |-> buffer[Len(buffer)],
                      bufferChannels |-> fed.bufferChannels,
                      silentFrames |-> IF silent = Len(buffer)
                                       THEN fed.silentFrames + silent ELSE silent,
                      signal |-> fed.signal \/ silent < Len(buffer),
                      completed |-> m.completed,
                      stream |-> fed.stream \o buffer]
    /\ lastCall' = [op |-> "processBlock"]
    /\ UNCHANGED <<storeVars, threadVars, ingested, result, plugVars, aggVars, audioVars>>

\* processBlock(buffer)
ProcessBlock(buffer) ==
    /\ Len(fed.completed) < MaxBlocks
    /\ OneChangeAtMost(fed.changes + ChangesIn(fed.last, buffer))
    /\ LET samples == [i \in 1 .. Len(buffer) |->
                          SampleOf(buffer[i], fed.frames + i - 1)]
           m == ProcessSamples(Meter, samples, fed.bufferChannels)
           silent == TrailingSilence(buffer)
       IN  /\ SetMeter(m)
           /\ fed' = [frames |-> fed.frames + Len(buffer),
                      changes |-> fed.changes + ChangesIn(fed.last, buffer),
                      last |-> buffer[Len(buffer)],
                      bufferChannels |-> fed.bufferChannels,
                      silentFrames |-> IF silent = Len(buffer)
                                       THEN fed.silentFrames + silent ELSE silent,
                      signal |-> fed.signal \/ silent < Len(buffer),
                      completed |-> m.completed,
                      stream |-> fed.stream \o buffer]
    /\ lastCall' = [op |-> "processBlock"]
    /\ UNCHANGED <<storeVars, threadVars, ingested, result, plugVars, aggVars, audioVars>>

NextMeter ==
    \/ \E args \in PrepareArgs : Prepare(args[1], args[2])
    \/ MeterReset
    \/ \E buffer \in Buffers : ProcessBlock(buffer)

SpecMeter == Init /\ [][NextMeter]_vars

\* --------------------- processBlock against prepare() and reset(), by steps
\* The audio thread runs processBlock one frame per step while a control
\* thread runs prepare() or reset() one group of assignments per step.
\* processBlock does not take processLock, so its accesses race with
\* those of the control thread: every interleaving of the steps is a
\* possible outcome.

\* Line 12: ScopedLock sl(processLock) in prepare().
ControlPrepareBegin(sampleRate, channels) ==
    /\ cpc = "idle"
    /\ processLock' = processLock + 1
    /\ cpc' = "setChannels"
    /\ cloc' = [call |-> "prepare", sampleRate |-> sampleRate, channels |-> channels]
    /\ UNCHANGED <<storeVars, threadVars, ingested, lastCall, result, plugVars, aggVars,
                   numChannels, samplesPerBlock, preFilterCoeffs, rlbFilterCoeffs,
                   preFilterStates, rlbFilterStates, channelWeights,
                   meanSquareBlocks, currentBlockIndex, currentBlockSum,
                   currentBlockSamples, momentaryLoudness, shortTermLoudness,
                   fed, apc, aloc>>

\* Lines 14-19: numChannels and the filter coefficients.
ControlPrepareCoeffs ==
    /\ cpc = "setChannels"
    /\ numChannels' = Min(cloc.channels, kMaxChannels)
    /\ preFilterCoeffs' = CalculatePreFilterCoeffs(cloc.sampleRate)
    /\ rlbFilterCoeffs' = CalculateRLBCoeffs(cloc.sampleRate)
    /\ cpc' = "setBlock"
    /\ UNCHANGED <<storeVars, threadVars, ingested, lastCall, result, plugVars, aggVars,
                   samplesPerBlock, preFilterStates, rlbFilterStates, channelWeights,
                   meanSquareBlocks, currentBlockIndex, currentBlockSum,
                   currentBlockSamples, momentaryLoudness, shortTermLoudness,
                   fed, processLock, apc, aloc, cloc>>

\* Lines 22-32: samplesPerBlock and the channel weights.
ControlPrepareBlock ==
    /\ cpc = "setBlock"
    /\ samplesPerBlock' = TruncDiv(cloc.sampleRate, 10)
    /\ channelWeights' = PreparedWeights(numChannels)
    /\ cpc' = "enterReset"
    /\ UNCHANGED <<storeVars, threadVars, ingested, lastCall, result, plugVars, aggVars,
                   numChannels, preFilterCoeffs, rlbFilterCoeffs,
                   preFilterStates, rlbFilterStates,
                   meanSquareBlocks, currentBlockIndex, currentBlockSum,
                   currentBlockSamples, momentaryLoudness, shortTermLoudness,
                   fed, processLock, apc, aloc, cloc>>

\* Line 39: ScopedLock sl(processLock) in reset(), called on its own or
\* from line 34 of prepare(); the CriticalSection is re-entrant.
ControlResetBegin ==
    /\ cpc \in {"idle", "enterReset"}
    /\ processLock' = processLock + 1
    /\ cloc' = IF cpc = "idle" THEN [call |-> "reset"] ELSE cloc
    /\ cpc' = "clearStates"
    /\ UNCHANGED <<storeVars, threadVars, ingested, lastCall, result, plugVars, aggVars,
                   numChannels, samplesPerBlock, preFilterCoeffs, rlbFilterCoeffs,
                   preFilterStates, rlbFilterStates, channelWeights,
                   meanSquareBlocks, currentBlockIndex, currentBlockSum,
                   currentBlockSamples, momentaryLoudness, shortTermLoudness,
                   fed, apc, aloc>>

\* Lines 41-44: the filter states.
ControlResetStates ==
    /\ cpc = "clearStates"
    /\ preFilterStates' = [ch \in Channels |-> DefaultState]
    /\ rlbFilterStates' = [ch \in Channels |-> DefaultState]
    /\ cpc' = "clearBlocks"
    /\ UNCHANGED <<storeVars, threadVars, ingested, lastCall, result, plugVars, aggVars,
                   numChannels, samplesPerBlock, preFilterCoeffs, rlbFilterCoeffs,
                   channelWeights,
                   meanSquareBlocks, currentBlockIndex, currentBlockSum,
                   currentBlockSamples, momentaryLoudness, shortTermLoudness,
                   fed, processLock, apc, aloc, cloc>>

\* Lines 46-49: the ring, its index and the accumulator.
ControlResetBlocks ==
    /\ cpc = "clearBlocks"
    /\ meanSquareBlocks' = [b \in BlockSlots |-> RatZero]
    /\ currentBlockIndex' = 0
    /\ currentBlockSum' = 0
    /\ currentBlockSamples' = 0
    /\ fed' = FreshFed(IF cloc.call = "prepare" THEN cloc.channels
                       ELSE fed.bufferChannels)
    /\ cpc' = "clearReadouts"
    /\ UNCHANGED <<storeVars, threadVars, ingested, lastCall, result, plugVars, aggVars,
                   numChannels, samplesPerBlock, preFilterCoeffs, rlbFilterCoeffs,
                   preFilterStates, rlbFilterStates, channelWeights,
                   momentaryLoudness, shortTermLoudness,
                   processLock, apc, aloc, cloc>>

\* Lines 51-52: the two readouts.
ControlResetReadouts ==
    /\ cpc = "clearReadouts"
    /\ momentaryLoudness' = MinusHundred
    /\ shortTermLoudness' = MinusHundred
    /\ cpc' = "leaveReset"
    /\ UNCHANGED <<storeVars, threadVars, ingested, lastCall, result, plugVars, aggVars,
                   numChannels, samplesPerBlock, preFilterCoeffs, rlbFilterCoeffs,
                   preFilterStates, rlbFilterStates, channelWeights,
                   meanSquareBlocks, currentBlockIndex, currentBlockSum,
                   currentBlockSamples, fed, processLock, apc, aloc, cloc>>

\* Line 53: reset() returns and its ScopedLock is released.
ControlResetEnd ==
    /\ cpc = "leaveReset"
    /\ processLock' = processLock - 1
    /\ cpc' = IF cloc.call = "prepare" THEN "leavePrepare" ELSE "idle"
    /\ UNCHANGED <<storeVars, threadVars, ingested, lastCall, result, plugVars, aggVars,
                   numChannels, samplesPerBlock, preFilterCoeffs, rlbFilterCoeffs,
                   preFilterStates, rlbFilterStates, channelWeights,
                   meanSquareBlocks, currentBlockIndex, currentBlockSum,
                   currentBlockSamples, momentaryLoudness, shortTermLoudness,
                   fed, apc, aloc, cloc>>

\* Line 35: prepare() returns and its ScopedLock is released.
ControlPrepareEnd ==
    /\ cpc = "leavePrepare"
    /\ processLock' = processLock - 1
    /\ cpc' = "idle"
    /\ UNCHANGED <<storeVars, threadVars, ingested, lastCall, result, plugVars, aggVars,
                   numChannels, samplesPerBlock, preFilterCoeffs, rlbFilterCoeffs,
                   preFilterStates, rlbFilterStates, channelWeights,
                   meanSquareBlocks, currentBlockIndex, currentBlockSum,
                   currentBlockSamples, momentaryLoudness, shortTermLoudness,
                   fed, apc, aloc, cloc>>

\* Buffers passed to processBlock while it runs beside prepare() and
\* reset(): 1 .. MaxBufferFrames frames of the tone.
AudioBuffers == UNION {[1 .. n -> {"tone"}] : n \in 1 .. MaxBufferFrames}

\* Lines 116-117: processBlock is entered; numSamples and channels.
AudioBegin(buffer) ==
    /\ apc = "idle"
    /\ Len(fed.completed) < MaxAudioBlocks
    /\ apc' = "processing"
    /\ aloc' = [buffer |-> buffer, frames |-> Len(buffer), steps |-> 0,
                channels |-> Min(fed.bufferChannels, numChannels)]
    /\ UNCHANGED <<storeVars, threadVars, ingested, lastCall, result, plugVars, aggVars,
                   numChannels, samplesPerBlock, preFilterCoeffs, rlbFilterCoeffs,
                   preFilterStates, rlbFilterStates, channelWeights,
                   meanSquareBlocks, currentBlockIndex, currentBlockSum,
                   currentBlockSamples, momentaryLoudness, shortTermLoudness,
                   fed, processLock, cpc, cloc>>

\* Slip: the frame is processed under processLock.
AudioFrame_Locked ==
    /\ apc = "processing"
    /\ processLock = 0
    /\ \E level \in {Head(aloc.buffer)} :
       \E m \in {ProcessFrame(Meter, SampleOf(level, fed.frames), aloc.channels)} :
           /\ SetMeter(m)
           /\ fed' = [frames |-> fed.frames + 1,
                      changes |-> fed.changes + ChangesIn(fed.last, <<level>>),
                      last |-> level,
                      bufferChannels |-> fed.bufferChannels,
                      silentFrames |-> IF level = "silence"
                                       THEN fed.silentFrames + 1 ELSE 0,
                      signal |-> fed.signal \/ level = "tone",
                      completed |-> m.completed,
                      stream |-> Append(fed.stream, level)]
    /\ aloc' = [aloc EXCEPT !.buffer = Tail(aloc.buffer), !.steps = aloc.steps + 1]
    /\ apc' = IF Tail(aloc.buffer) = <<>> THEN "idle" ELSE "processing"
    /\ lastCall' = [op |-> "processFrame"]
    /\ UNCHANGED <<storeVars, threadVars, ingested, result, plugVars, aggVars,
                   processLock, cpc, cloc>>

\* Lines 119-169: one pass of the sample loop; after the last frame
\* processBlock returns.
AudioFrame ==
    /\ apc = "processing"
    /\ \E level \in {Head(aloc.buffer)} :
       \E m \in {ProcessFrame(Meter, SampleOf(level, fed.frames), aloc.channels)} :
           /\ SetMeter(m)
           /\ fed' = [frames |-> fed.frames + 1,
                      changes |-> fed.changes + ChangesIn(fed.last, <<level>>),
                      last |-> level,
                      bufferChannels |-> fed.bufferChannels,
                      silentFrames |-> IF level = "silence"
                                       THEN fed.silentFrames + 1 ELSE 0,
                      signal |-> fed.signal \/ level = "tone",
                      completed |-> m.completed,
                      stream |-> Append(fed.stream, level)]
    /\ aloc' = [aloc EXCEPT !.buffer = Tail(aloc.buffer), !.steps = aloc.steps + 1]
    /\ apc' = IF Tail(aloc.buffer) = <<>> THEN "idle" ELSE "processing"
    /\ lastCall' = [op |-> "processFrame"]
    /\ UNCHANGED <<storeVars, threadVars, ingested, result, plugVars, aggVars,
                   processLock, cpc, cloc>>

\* getMomentaryLoudness() and getShortTermLoudness(): two relaxed loads.
ReadLoudness ==
    /\ lastCall' = [op |-> "getLoudness"]
    /\ UNCHANGED <<storeVars, threadVars, ingested, result, plugVars, aggVars, meterVars>>

NextAudio ==
    \/ \E args \in AudioPrepareArgs : ControlPrepareBegin(args[1], args[2])
    \/ ControlPrepareCoeffs
    \/ ControlPrepareBlock
    \/ ControlResetBegin
    \/ ControlResetStates
    \/ ControlResetBlocks
    \/ ControlResetReadouts
    \/ ControlResetEnd
    \/ ControlPrepareEnd
    \/ \E buffer \in AudioBuffers : AudioBegin(buffer)
    \/ AudioFrame
    \/ ReadLoudness

\* The audio thread is scheduled; the control thread may stop anywhere,
\* also while it holds processLock.
SpecAudio == Init /\ [][NextAudio]_vars /\ WF_vars(AudioFrame)

\* The readouts getMomentaryLoudness() and getShortTermLoudness() return.
GetMomentaryLoudness == momentaryLoudness
GetShortTermLoudness == shortTermLoudness

\* ------------------------ processBlock against timerCallback(), by steps
\* The audio thread runs processBlock one frame per step and publishes
\* the two readouts of a completed block with two separate stores; the
\* timer thread reads them with two separate loads and passes the pair to
\* addPoint.  The meter is neither prepared nor reset meanwhile.

\* Lines 119-158: one pass of the sample loop up to the store of
\* momentaryLoudness when the frame completes a block, the whole pass
\* otherwise.
AudioFrameToMomentary ==
    /\ apc = "processing"
    /\ \E level \in {Head(aloc.buffer)} :
       \E m \in {ProcessFrame(Meter, SampleOf(level, fed.frames), aloc.channels)} :
           /\ SetMeter([m EXCEPT !.shortTermLoudness = shortTermLoudness])
           /\ fed' = [frames |-> fed.frames + 1,
                      changes |-> fed.changes + ChangesIn(fed.last, <<level>>),
                      last |-> level,
                      bufferChannels |-> fed.bufferChannels,
                      silentFrames |-> IF level = "silence"
                                       THEN fed.silentFrames + 1 ELSE 0,
                      signal |-> fed.signal \/ level = "tone",
                      completed |-> m.completed,
                      stream |-> Append(fed.stream, level)]
           /\ apc' = IF Len(m.completed) > Len(fed.completed) THEN "storeShortTerm"
                     ELSE IF Tail(aloc.buffer) = <<>> THEN "idle"
                     ELSE "processing"
    /\ aloc' = [aloc EXCEPT !.buffer = Tail(aloc.buffer), !.steps = aloc.steps + 1]
    /\ lastCall' = [op |-> "processFrame"]
    /\ UNCHANGED <<storeVars, threadVars, ingested, result, plugVars, aggVars,
                   processLock, cpc, cloc>>

\* Lines 160-167: the short-term sum over the ring and the store of
\* shortTermLoudness; after the last frame processBlock returns.
AudioStoreShortTerm ==
    /\ apc = "storeShortTerm"
    /\ shortTermLoudness' = CalculateLoudness(ShortTermMean(meanSquareBlocks))
    /\ apc' = IF aloc.buffer = <<>> THEN "idle" ELSE "processing"
    /\ UNCHANGED <<storeVars, threadVars, ingested, lastCall, result, plugVars, aggVars,
                   numChannels, samplesPerBlock, preFilterCoeffs, rlbFilterCoeffs,
                   preFilterStates, rlbFilterStates, channelWeights,
                   meanSquareBlocks, currentBlockIndex, currentBlockSum,
                   currentBlockSamples, momentaryLoudness,
                   fed, processLock, aloc, cpc, cloc>>

\* Number of the completed block (1, 2, ... since reset) whose store the
\* readout holds; 0 for the value reset() stored.
MomentaryPublishedBy == Len(fed.completed)
ShortTermPublishedBy ==
    IF apc = "storeShortTerm" THEN Len(fed.completed) - 1 ELSE Len(fed.completed)

\* PluginProcessor.cpp line 94: float momentary = getMomentaryLoudness().
\* The locals also note which block had published the value read.
TimerReadMomentary ==
    /\ wpc = "idle"
    /\ pointCount < MaxConcPoints
    /\ wpc' = "readShortTerm"
    /\ wloc' = [momentary |-> GetMomentaryLoudness,
                momentaryBlock |-> MomentaryPublishedBy]
    /\ UNCHANGED <<storeVars, lodMutex, rpc, rloc, ingested, lastCall, result,
                   plugVars, aggVars, meterVars>>

\* PluginProcessor.cpp line 95: float shortTerm = getShortTermLoudness().
TimerReadShortTerm ==
    /\ wpc = "readShortTerm"
    /\ wpc' = "addPoint"
    /\ wloc' = [momentary |-> wloc.momentary,
                momentaryBlock |-> wloc.momentaryBlock,
                shortTerm |-> GetShortTermLoudness,
                shortTermBlock |-> ShortTermPublishedBy]
    /\ UNCHANGED <<storeVars, lodMutex, rpc, rloc, ingested, lastCall, result,
                   plugVars, aggVars, meterVars>>

\* PluginProcessor.cpp line 97: dataStore.addPoint(momentary, shortTerm),
\* all of it (LoudnessDataStore.cpp lines 46-56), and the return of
\* timerCallback.
TimerAddPoint ==
    /\ wpc = "addPoint"
    /\ LET point == LoudnessPoint(wloc.momentary, wloc.shortTerm, Timestamp(pointCount))
       IN  /\ ringBuffer' = [ringBuffer EXCEPT ![writeIndex] = point]
           /\ writeIndex' = (writeIndex + 1) % kRingBufferSize
           /\ pointCount' = pointCount + 1
           /\ currentTimestamp' = point.timestamp
           /\ ingested' = ingested \cup {point}
    /\ wpc' = "idle"
    /\ wloc' = NoLocals
    /\ lastCall' = [op |-> "timerCallback",
                    momentaryBlock |-> wloc.momentaryBlock,
                    shortTermBlock |-> wloc.shortTermBlock]
    /\ UNCHANGED <<lastProcessedIndex, lodLevels, lodMutex, rpc, rloc, result,
                   plugVars, aggVars, meterVars>>

NextTimer ==
    \/ \E buffer \in AudioBuffers : AudioBegin(buffer)
    \/ AudioFrameToMomentary
    \/ AudioStoreShortTerm
    \/ TimerReadMomentary
    \/ TimerReadShortTerm
    \/ TimerAddPoint

SpecTimer == Init /\ [][NextTimer]_vars

\* ------------------------------------------- MinMaxPoint: addSample, merge
\* Two aggregates a and b are built from fresh ones by addSample and then
\* merged, a.merge(b) on a and b.merge(a) on b, each with the other as it
\* was before.

\* a.addSample(m, s, t); t is the number of the sample.
AddSampleA(m, s) ==
    /\ ~aggA.merged
    /\ Len(aggA.samples) < MaxSamples
    /\ aggA' = [point |-> AddSample(aggA.point, m, s, Len(aggA.samples)),
                samples |-> Append(aggA.samples, <<m, s>>),
                merged |-> FALSE]
    /\ UNCHANGED <<storeVars, threadVars, ingested, lastCall, result, plugVars,
                   meterVars, aggB>>

\* b.addSample(m, s, t)
AddSampleB(m, s) ==
    /\ ~aggB.merged
    /\ Len(aggB.samples) < MaxSamples
    /\ aggB' = [point |-> AddSample(aggB.point, m, s, Len(aggB.samples)),
                samples |-> Append(aggB.samples, <<m, s>>),
                merged |-> FALSE]
    /\ UNCHANGED <<storeVars, threadVars, ingested, lastCall, result, plugVars,
                   meterVars, aggA>>

\* a.merge(b) and, on the aggregates as they were, b.merge(a).
MergeBothWays ==
    /\ ~aggA.merged
    /\ aggA' = [point |-> Merge(aggA.point, aggB.point),
                samples |-> aggA.samples \o aggB.samples,
                merged |-> TRUE]
    /\ aggB' = [point |-> Merge(aggB.point, aggA.point),
                samples |-> aggB.samples \o aggA.samples,
                merged |-> TRUE]
    /\ UNCHANGED <<storeVars, threadVars, ingested, lastCall, result, plugVars,
                   meterVars>>

\* a.reset() and b.reset()
ResetAggregates ==
    /\ aggA.merged
    /\ aggA' = FreshAggregate
    /\ aggB' = FreshAggregate
    /\ UNCHANGED <<storeVars, threadVars, ingested, lastCall, result, plugVars,
                   meterVars>>

NextMerge ==
    \/ \E in \in SampleInputs : AddSampleA(in[1], in[2])
    \/ \E in \in SampleInputs : AddSampleB(in[1], in[2])
    \/ MergeBothWays
    \/ ResetAggregates

SpecMerge == Init /\ [][NextMerge]_vars

\* ------------------------------------------------------------- properties
IsEmptyResult(r) == r.points = <<>> /\ r.minMaxPoints = <<>>

\* The last call was a query that brought the LOD levels up to date.
LodUpToDate == lastCall.op = "query" /\ lastCall.path = "lod"

\* Points a level has folded: its finalized buckets and its accumulator.
FoldedCount(k) ==
    Len(lodLevels[k].points) * lodLevels[k].reductionFactor
        + lodLevels[k].accumulatorCount

\* The level-0 bucket (reduction factor 1) made of the single point p.
BucketOf(p) == [minMomentary |-> p.momentary, maxMomentary |-> p.momentary,
                minShortTerm |-> p.shortTerm, maxShortTerm |-> p.shortTerm,
                timestamp |-> p.timestamp]

\* C1: once a query has brought the LOD levels up to date, every point
\* passed to addPoint since reset has been folded into every level: each
\* level has folded pointCount points, and level 0 holds a bucket for each
\* ingested point, also for those the ring buffer no longer holds.
C1_NoIngestedPointMissing ==
    LodUpToDate =>
        /\ \A k \in Levels : FoldedCount(k) = pointCount
        /\ \A p \in ingested :
              \E j \in 1 .. Len(lodLevels[0].points) :
                  lodLevels[0].points[j] = BucketOf(p)

\* C2: a query repeated with no addPoint or reset in between returns the
\* same RenderData and takes the same path as the first call.
C2_QueryIdempotent ==
    [][(/\ lastCall.op = "query" /\ lastCall'.op = "query"
        /\ lastCall'.startTime = lastCall.startTime
        /\ lastCall'.endTime = lastCall.endTime
        /\ lastCall'.maxPixels = lastCall.maxPixels)
       => (result' = result /\ lastCall'.path = lastCall.path)]_vars

\* A query was repeated after it had updated the LOD levels and returned
\* aggregates.
C2_Witness ==
    /\ lastCall.op = "query" /\ lastCall.repeat /\ lastCall.path = "lod"
    /\ Len(result.minMaxPoints) >= 2
    /\ Len(lodLevels[kLodLevels - 1].points) >= 1

\* C3: in every state every level's finalized buckets followed by its
\* in-progress bucket cover the ingested points 0 .. pointCount-1 in order:
\* bucket i (1-based) ends with point i*factor - 1, and the accumulator
\* holds the remaining points up to the newest one.
C3_CoverageInvariant ==
    \A k \in Levels :
        LET lod == lodLevels[k]
        IN  /\ FoldedCount(k) = pointCount
            /\ \A i \in 1 .. Len(lod.points) :
                  lod.points[i].timestamp
                      = (i * lod.reductionFactor - 1) * UnitsPerPoint
            /\ lod.accumulatorCount > 0 =>
                  lod.accumulator.timestamp = (pointCount - 1) * UnitsPerPoint

\* The range of q lies entirely outside the time span of ingested data.
OutsideIngested(q) ==
    \/ pointCount = 0
    \/ q[2] < 0
    \/ q[1] > (pointCount - 1) * UnitsPerPoint

\* C4: a query whose range lies outside the ingested data, or whose
\* maxPixels <= 0 or endTime <= startTime, returns an empty RenderData;
\* both for the query that just returned and for any query that could be
\* made now.
C4_OutsideRangeEmpty ==
    /\ \A q \in QueryArgs :
          (OutsideIngested(q) \/ q[3] <= 0 \/ q[2] <= q[1])
              => IsEmptyResult(Answer(q))
    /\ (/\ lastCall.op = "query"
        /\ LET q == <<lastCall.startTime, lastCall.endTime, lastCall.maxPixels>>
           IN  OutsideIngested(q) \/ q[3] <= 0 \/ q[2] <= q[1])
       => IsEmptyResult(result)

\* A query starting after the newest point returned (empty) while the ring
\* buffer held data, and so did one ending before the first point that
\* took the LOD path.
C4_Witness ==
    /\ lastCall.op = "query" /\ pointCount > kRingBufferSize
    /\ lastCall.maxPixels > 0 /\ lastCall.endTime > lastCall.startTime
    /\ lastCall.startTime > (pointCount - 1) * UnitsPerPoint
    /\ lastCall.path = "ring"
    /\ IsEmptyResult(result)

\* C5: from reset until the next addPoint (pointCount = 0) the clock is 0,
\* every level is empty, every query returns an empty result; the first
\* addPoint after it is stamped 0.
C5_ResetClearsStore ==
    /\ lastCall.op = "reset" => pointCount = 0
    /\ pointCount = 0 =>
          /\ GetCurrentTime = 0
          /\ \A k \in Levels :
                /\ lodLevels[k].points = <<>>
                /\ lodLevels[k].accumulatorCount = 0
                /\ lodLevels[k].accumulator = EmptyMinMax
          /\ \A q \in QueryArgs : IsEmptyResult(Answer(q))
          /\ lastCall.op = "query" => IsEmptyResult(result)
    /\ pointCount = 1 =>
          /\ GetCurrentTime = 0
          /\ \E p \in ingested : p.timestamp = 0 /\ ringBuffer[0] = p

\* A query has returned after a reset that found the ring buffer wrapped:
\* slot 0 still holds a point of the earlier session.
C5_Witness ==
    /\ pointCount = 0 /\ lastCall.op = "query" /\ lastCall.path = "lod"
    /\ ringBuffer[0].timestamp >= kRingBufferSize * UnitsPerPoint

\* C6: the n-th addPoint since reset (n = pointCount before the call)
\* stores its point with timestamp n / updateRate in the slot at
\* writeIndex, getCurrentTime() returns that timestamp afterwards, time
\* does not decrease and grows by one sample period after the first point.
C6_SequentialTimestamps ==
    [][(lastCall'.op = "addPoint" /\ pointCount' # pointCount) =>
          /\ pointCount' = pointCount + 1
          /\ ringBuffer'[writeIndex].timestamp = pointCount * UnitsPerPoint
          /\ GetCurrentTime' = pointCount * UnitsPerPoint
          /\ GetCurrentTime' >= GetCurrentTime
          /\ pointCount > 0 => GetCurrentTime' = GetCurrentTime + UnitsPerPoint]_vars

\* An addPoint has returned after the ring buffer wrapped.
C6_Witness ==
    /\ lastCall.op = "addPoint" /\ pointCount > kRingBufferSize
    /\ GetCurrentTime = (pointCount - 1) * UnitsPerPoint

C7_AddPointNeverBlocks ==
    wpc # "idle" => (ENABLED AddPointStep /\ wloc.steps <= 4)

\* addPoint is about to publish its index while the query thread holds
\* lodMutex inside the folding loop.
C7_Witness ==
    /\ wpc = "storeIndex"
    /\ lodMutex = "query" /\ rpc = "procLoop"
    /\ lastProcessedIndex # rloc.currentWrite

\* The scan loop of getRecentPoints is about to read the slot that
\* addPoint has partly written.
ReadsSlotBeingWritten ==
    /\ rpc = "recentScan" /\ wpc = "writing"
    /\ rloc.i < Min(rloc.count, kRingBufferSize)
    /\ ScanIndex(rloc.count, rloc.currentWrite, rloc.i) = wloc.idx

\* C9: with addPoint and getDataForTimeRange running concurrently the
\* reader never reads a slot the writer is writing, and every raw point a
\* query returns is a point that was passed to addPoint.
C9_NoTornRead ==
    /\ ~ReadsSlotBeingWritten
    /\ lastCall.op = "query" =>
          \A i \in 1 .. Len(result.points) : result.points[i] \in ingested

\* The range of q lies within already-ingested time.
WithinIngested(q) ==
    /\ pointCount > 0
    /\ q[3] > 0 /\ q[1] < q[2]
    /\ q[1] >= 0 /\ q[2] <= currentTimestamp

\* C10: for a range within already-ingested time and a fixed maxPixels, a
\* further addPoint does not change what getDataForTimeRange returns.
C10_RequeryStable ==
    [][(lastCall'.op = "addPoint" /\ pointCount' # pointCount) =>
          \A q \in QueryArgs : WithinIngested(q) => Answer(q)' = Answer(q)]_vars

\* Every ingested point carries the same momentary and short-term value.
ConstantInput ==
    /\ ingested # {}
    /\ \A p1, p2 \in ingested :
          p1.momentary = p2.momentary /\ p1.shortTerm = p2.shortTerm

\* The range of q covers all ingested data: 0 up to the newest timestamp.
CoversIngested(q) ==
    /\ pointCount > 0
    /\ q[3] > 0 /\ q[1] <= 0 /\ q[2] > currentTimestamp

\* Every raw point of r equals (m, s) and every aggregate of r has
\* min = max = m and min = max = s.
EnvelopeIs(r, m, s) ==
    /\ \A i \in 1 .. Len(r.points) :
          r.points[i].momentary = m /\ r.points[i].shortTerm = s
    /\ \A i \in 1 .. Len(r.minMaxPoints) :
          /\ r.minMaxPoints[i].minMomentary = m
          /\ r.minMaxPoints[i].maxMomentary = m
          /\ r.minMaxPoints[i].minShortTerm = s
          /\ r.minMaxPoints[i].maxShortTerm = s

\* C11: if every ingested point has the same momentary value v and the
\* same short-term value s, every query covering the ingested data returns
\* a non-empty sequence in which every raw point equals (v, s) and every
\* aggregate has min = max = v and min = max = s.
C11_ConstantEnvelope ==
    ConstantInput =>
        \A q \in QueryArgs :
            CoversIngested(q) =>
                LET r == Answer(q)
                    p == CHOOSE x \in ingested : TRUE
                IN  /\ ~IsEmptyResult(r)
                    /\ EnvelopeIs(r, p.momentary, p.shortTerm)

\* Timestamps of everything a RenderData holds.
ReturnedTimestamps(r) ==
    {r.points[i].timestamp : i \in 1 .. Len(r.points)}
        \cup {r.minMaxPoints[i].timestamp : i \in 1 .. Len(r.minMaxPoints)}

\* C12: the query window is half-open: every raw point or aggregate that
\* getDataForTimeRange(startTime, endTime, maxPixels) returns has
\* startTime <= timestamp < endTime; a point stamped endTime is not
\* returned.
C12_HalfOpenWindow ==
    \A q \in QueryArgs :
        \A t \in ReturnedTimestamps(Answer(q)) : q[1] <= t /\ t < q[2]

\* C13: when a query has taken the LOD path and the accumulator of the
\* selected level holds points, the newest of them stamped inside the
\* queried range, the returned sequence contains the aggregate of that
\* in-progress bucket.
C13_InProgressBucketReturned ==
    (/\ lastCall.op = "query" /\ lastCall.path = "lod"
     /\ lodLevels[result.lodLevel].accumulatorCount > 0
     /\ lodLevels[result.lodLevel].accumulator.timestamp >= lastCall.startTime
     /\ lodLevels[result.lodLevel].accumulator.timestamp < lastCall.endTime)
    => \E i \in 1 .. Len(result.minMaxPoints) :
           result.minMaxPoints[i] = lodLevels[result.lodLevel].accumulator

\* Time ranges and pixel counts selectLodLevel is asked about.
TimeRanges == 1 .. (AfterLast + 1 - VeryEarly)
PixelCounts == 1 .. MaxPixels

\* Duration of one bucket of level k: reductionFactor / updateRate.
BucketDuration(k) == UnitsPerPoint * lodLevels[k].reductionFactor

\* The level whose bucket duration is the smallest one that is at least
\* timeRange / n; the coarsest level if no bucket is that long.
SmallestCoveringLevel(timeRange, n) ==
    LET ok == {k \in Levels : BucketDuration(k) * n >= timeRange}
    IN  IF ok = {} THEN kLodLevels - 1
        ELSE CHOOSE k \in ok : \A j \in ok : k <= j

\* C14 as stated: for timeRange > 0 and N > 0 selectLodLevel returns the
\* level whose bucket duration is the smallest one >= timeRange / N, the
\* coarsest level if none is.
C14_SmallestCoveringLevel ==
    /\ \A timeRange \in TimeRanges : \A n \in PixelCounts :
          SelectLodLevel(lodLevels, timeRange, n)
              = SmallestCoveringLevel(timeRange, n)
    /\ (lastCall.op = "query" /\ lastCall.path = "lod") =>
          result.lodLevel
              = SmallestCoveringLevel(lastCall.endTime - lastCall.startTime,
                                      lastCall.maxPixels)

\* Level k yields at least 1.5 buckets per pixel over timeRange.
DenseEnough(k, timeRange, n) == 2 * timeRange >= 3 * BucketDuration(k) * n

\* C14 amended: for timeRange > 0 and N > 0 selectLodLevel returns the
\* coarsest level whose bucket duration is at most timeRange / (1.5 N),
\* so that the range holds at least 1.5 N of its buckets, and level 0 if no
\* level is that fine; the level a LOD-path query reports is that level.
C14_CoarsestDenseLevel ==
    /\ \A timeRange \in TimeRanges : \A n \in PixelCounts :
          LET k == SelectLodLevel(lodLevels, timeRange, n)
          IN  /\ k \in Levels
              /\ k > 0 => DenseEnough(k, timeRange, n)
              /\ \A j \in Levels : j > k => ~DenseEnough(j, timeRange, n)
    /\ (lastCall.op = "query" /\ lastCall.path = "lod") =>
          LET timeRange == lastCall.endTime - lastCall.startTime
              k == result.lodLevel
          IN  /\ k > 0 => DenseEnough(k, timeRange, lastCall.maxPixels)
              /\ \A j \in Levels :
                    j > k => ~DenseEnough(j, timeRange, lastCall.maxPixels)

\* A LOD-path query returned buckets of a level other than the one with
\* the smallest bucket duration >= timeRange / N.
C14_Witness ==
    /\ lastCall.op = "query" /\ lastCall.path = "lod"
    /\ Len(result.minMaxPoints) >= 1
    /\ result.lodLevel
           # SmallestCoveringLevel(lastCall.endTime - lastCall.startTime,
                                   lastCall.maxPixels)

\* Number of raw points and aggregates a RenderData holds.
ResultSize(r) == Len(r.points) + Len(r.minMaxPoints)

\* C15: for maxPixels >= 1 a query returns at most 2 * maxPixels raw
\* points or aggregates, whatever the store holds.
C15_ResultSizeBounded ==
    /\ \A q \in QueryArgs :
          q[3] >= 1 => ResultSize(Answer(q)) <= 2 * q[3]
    /\ (lastCall.op = "query" /\ lastCall.maxPixels >= 1) =>
          ResultSize(result) <= 2 * lastCall.maxPixels

\* A ring-path query found more than 2 * maxPixels points in its window
\* and returned exactly 2 * maxPixels aggregates.
C15_Witness ==
    /\ lastCall.op = "query" /\ lastCall.path = "ring"
    /\ lastCall.maxPixels >= 1
    /\ result.useMinMax
    /\ Len(result.minMaxPoints) = 2 * lastCall.maxPixels
    /\ pointCount > 2 * lastCall.maxPixels

RECURSIVE FinalizedUpTo(_)
FinalizedUpTo(k) ==
    IF k < 0 THEN 0 ELSE Len(lodLevels[k].points) + FinalizedUpTo(k - 1)

StoredElements == kRingBufferSize + FinalizedUpTo(kLodLevels - 1)

\* A budget that does not grow with the number of addPoint calls: the ring
\* slots and as many finalized buckets per level.
MemoryBudget == kRingBufferSize * (1 + kLodLevels)

\* C17: the number of stored elements stays within a budget fixed by the
\* store's capacities, however many addPoint calls the session has made.
C17_BoundedMemory == StoredElements <= MemoryBudget

\* dataStore.reset() has been entered and has not returned.
ResetExecuting == hpc \in {"resetCounters", "resetLevels"}

\* C18: across every sequence of prepareToPlay, releaseResources, timer
\* callbacks and display queries, dataStore.reset() only executes while
\* the ingestion timer is stopped and neither addPoint nor
\* getDataForTimeRange is in flight.
C18_ResetSerialized ==
    ResetExecuting => (~timerRunning /\ wpc = "idle" /\ rpc = "idle")

\* C19 as stated: once all-zero frames have been fed to a prepared meter
\* for 3 s (kBlocksPerShortTerm blocks of samplesPerBlock frames), both
\* readouts are exactly -100, whatever was fed before.
C19_SilenceYieldsSentinel ==
    (/\ samplesPerBlock >= 1
     /\ fed.silentFrames >= kBlocksPerShortTerm * samplesPerBlock)
    => (GetMomentaryLoudness = MinusHundred /\ GetShortTermLoudness = MinusHundred)

\* C19 amended: from a freshly constructed, prepared or reset meter both
\* readouts are exactly -100 after any number of zero-valued frames, in
\* particular after 3 s of them.
C19_SilenceFromResetYieldsSentinel ==
    ~fed.signal =>
        (GetMomentaryLoudness = MinusHundred /\ GetShortTermLoudness = MinusHundred)

\* Only zero frames have been fed since prepare, for more than 3 s: the
\* ring of mean squares has wrapped.
C19_Witness ==
    /\ lastCall.op = "processBlock"
    /\ ~fed.signal
    /\ numChannels = 6
    /\ Len(fed.completed) > kBlocksPerShortTerm
    /\ fed.silentFrames >= kBlocksPerShortTerm * samplesPerBlock
    /\ GetShortTermLoudness = MinusHundred

\* The n most recently completed mean squares, most recent first; blocks
\* not produced since reset count as 0.
LastCompleted(n) ==
    [i \in 1 .. n |->
        IF i <= Len(fed.completed)
        THEN fed.completed[Len(fed.completed) - i + 1] ELSE RatZero]

\* C20: once a block has completed, the published momentary value is
\* loudness(mean of the kBlocksPerMomentary most recently completed mean
\* squares), blocks not yet produced counting as 0, with loudness(x) =
\* -100 for x <= 0.
C20_MomentaryIsMeanOfLastFour ==
    Len(fed.completed) > 0 =>
        LET mean == RatDiv(RatSum(LastCompleted(kBlocksPerMomentary)),
                           kBlocksPerMomentary)
        IN  IF mean.num <= 0
            THEN GetMomentaryLoudness = MinusHundred
            ELSE GetMomentaryLoudness = [minus100 |-> FALSE, arg |-> mean]

\* A block has just completed after the ring wrapped, the window of the
\* momentary value reaches back across slot 0 and holds different blocks.
C20_Witness ==
    /\ lastCall.op = "processBlock"
    /\ currentBlockSamples = 0
    /\ Len(fed.completed) > kBlocksPerShortTerm
    /\ currentBlockIndex \in 1 .. (kBlocksPerMomentary - 1)
    /\ ~GetMomentaryLoudness.minus100
    /\ LastCompleted(kBlocksPerMomentary)[1]
           # LastCompleted(kBlocksPerMomentary)[kBlocksPerMomentary]


\* C21: once a block has completed, the published short-term value is
\* loudness(mean of the kBlocksPerShortTerm most recently completed mean
\* squares), blocks not yet produced since reset counting as 0, with
\* loudness(x) = -100 for x <= 0.
C21_ShortTermIsMeanOfLastThirty ==
    Len(fed.completed) > 0 =>
        LET mean == RatDiv(RatSum(LastCompleted(kBlocksPerShortTerm)),
                           kBlocksPerShortTerm)
        IN  IF mean.num <= 0
            THEN GetShortTermLoudness = MinusHundred
            ELSE GetShortTermLoudness = [minus100 |-> FALSE, arg |-> mean]

\* A block has just completed after the ring wrapped: a block with energy
\* has been overwritten and is no longer counted, the last slot of the
\* ring holds energy, and the published value is above the floor.
C21_Witness ==
    /\ lastCall.op = "processBlock"
    /\ currentBlockSamples = 0
    /\ Len(fed.completed) > kBlocksPerShortTerm
    /\ fed.completed[Len(fed.completed) - kBlocksPerShortTerm].num > 0
    /\ meanSquareBlocks[kBlocksPerShortTerm - 1].num > 0
    /\ ~GetShortTermLoudness.minus100


\* Frames fed and blocks completed by the step.
FramesOfStep == fed'.frames - fed.frames
BlocksOfStep == Len(fed'.completed) - Len(fed.completed)

\* The accumulator as the frame being fed leaves it, before the test of
\* line 139: the one frame of the step is fed to a meter whose block is
\* one sample longer than what has been accumulated.
AccumulatedByStep ==
    ProcessSample([Meter EXCEPT !.samplesPerBlock = currentBlockSamples + 2],
                  SampleOf(fed'.last, fed.frames), fed.bufferChannels)

\* Blocks are finalized exactly when the sample count reaches
\* samplesPerBlock, and the ring index advances once per block.
FinalizedWhenFull ==
    /\ BlocksOfStep = (currentBlockSamples + FramesOfStep) \div samplesPerBlock
    /\ currentBlockSamples' = (currentBlockSamples + FramesOfStep) % samplesPerBlock
    /\ currentBlockIndex' = (currentBlockIndex + BlocksOfStep) % kBlocksPerShortTerm

\* A single block finalized by a one-frame call is runningSum / sampleCount.
FinalizedMeanSquare ==
    (FramesOfStep = 1 /\ BlocksOfStep = 1) =>
        fed'.completed[Len(fed'.completed)] =
            Rat(AccumulatedByStep.currentBlockSum,
                AccumulatedByStep.currentBlockSamples)

\* After kBlocksPerShortTerm or more blocks the ring holds exactly the
\* kBlocksPerShortTerm most recent ones, newest just behind the ring index.
RingHoldsMostRecent ==
    Len(fed'.completed) >= kBlocksPerShortTerm =>
        \A i \in 1 .. kBlocksPerShortTerm :
            meanSquareBlocks'[(currentBlockIndex' - i + kBlocksPerShortTerm)
                                  % kBlocksPerShortTerm]
                = fed'.completed[Len(fed'.completed) - i + 1]

\* C22 as stated, the ring index being currentBlockIndex: a call that
\* finalizes one block overwrites exactly the slot at index
\* (currentBlockIndex + 1) mod kBlocksPerShortTerm.
C22_OverwritesSlotAfterIndex ==
    [][(lastCall'.op = "processBlock" /\ BlocksOfStep = 1) =>
          \A s \in BlockSlots :
              meanSquareBlocks'[s] =
                  IF s = (currentBlockIndex + 1) % kBlocksPerShortTerm
                  THEN fed'.completed[Len(fed'.completed)]
                  ELSE meanSquareBlocks[s]]_vars

\* C22 amended: a block is finalized exactly when the sample count reaches
\* samplesPerBlock; each finalized mean square (runningSum / sampleCount)
\* overwrites exactly one ring slot, the one at the ring index
\* currentBlockIndex itself, and the index advances by one modulo
\* kBlocksPerShortTerm; after kBlocksPerShortTerm or more completed blocks
\* the ring holds exactly the kBlocksPerShortTerm most recent blocks.
C22_OverwritesSlotAtIndex ==
    [][lastCall'.op = "processBlock" =>
          /\ FinalizedWhenFull
          /\ FinalizedMeanSquare
          /\ \A s \in BlockSlots :
                LET k == (s - currentBlockIndex + kBlocksPerShortTerm)
                             % kBlocksPerShortTerm
                IN  meanSquareBlocks'[s] =
                        IF k < BlocksOfStep
                        THEN fed'.completed[Len(fed.completed) + k + 1]
                        ELSE meanSquareBlocks[s]
          /\ RingHoldsMostRecent]_vars

\* A block with energy has just been finalized into a ring that had
\* wrapped: it replaced the oldest block, which differed from it, and the
\* slot after it holds the block that is now the oldest.
C22_Witness ==
    /\ lastCall.op = "processBlock"
    /\ currentBlockSamples = 0
    /\ Len(fed.completed) > kBlocksPerShortTerm
    /\ fed.completed[Len(fed.completed)].num > 0
    /\ meanSquareBlocks[(currentBlockIndex - 1 + kBlocksPerShortTerm)
                            % kBlocksPerShortTerm]
           = fed.completed[Len(fed.completed)]
    /\ fed.completed[Len(fed.completed) - kBlocksPerShortTerm]
           # fed.completed[Len(fed.completed)]
    /\ meanSquareBlocks[currentBlockIndex]
           = fed.completed[Len(fed.completed) - kBlocksPerShortTerm + 1]


\* sampleRate * 0.1 rounded to the nearest integer, halves upwards.
RoundedTenth(sampleRate) == (2 * sampleRate + 10) \div 20

\* C23: when prepare(sampleRate, ...) has returned, samplesPerBlock is
\* sampleRate * 0.1 rounded to the nearest integer, also for the rates of
\* which sampleRate * 0.1 is not an integer.
C23_SamplesPerBlockRounded ==
    lastCall.op = "prepare" => samplesPerBlock = RoundedTenth(lastCall.sampleRate)


\* Channel count passed to the most recent prepare; 2, the member
\* initialiser of numChannels, when prepare has not been called.
PreparedChannels == fed.bufferChannels

\* C24: after prepare with channel count c, numChannels is c clamped to
\* kMaxChannels and, in hundredths, the weight of index 3 is 0 iff c >= 4,
\* that of index 4 is 141 iff c >= 5, that of index 5 is 141 iff c >= 6,
\* and every other weight is 100, whatever an earlier prepare had set;
\* processBlock and reset leave the weights as prepare set them.
C24_ChannelWeights ==
    /\ numChannels = Min(PreparedChannels, kMaxChannels)
    /\ channelWeights[3] = 0 <=> PreparedChannels >= 4
    /\ channelWeights[4] = 141 <=> PreparedChannels >= 5
    /\ channelWeights[5] = 141 <=> PreparedChannels >= 6
    /\ \A ch \in Channels :
          \/ channelWeights[ch] = 100
          \/ ch = 3 /\ channelWeights[ch] = 0
          \/ ch \in {4, 5} /\ channelWeights[ch] = 141

\* prepare has returned for four channels: the LFE weight is 0 and the
\* weights of indices 4 and 5 are 1.0.
C24_Witness ==
    /\ lastCall.op = "prepare"
    /\ lastCall.channels = 4
    /\ numChannels = 4
    /\ channelWeights[3] = 0
    /\ channelWeights[4] = 100
    /\ channelWeights[5] = 100


\* Filter states, ring, ring index, accumulator and readouts are in
\* their cleared state.
MeterCleared ==
    /\ \A ch \in Channels :
          /\ preFilterStates[ch] = [z1 |-> 0, z2 |-> 0]
          /\ rlbFilterStates[ch] = [z1 |-> 0, z2 |-> 0]
    /\ \A b \in BlockSlots : meanSquareBlocks[b] = RatZero
    /\ currentBlockIndex = 0
    /\ currentBlockSum = 0
    /\ currentBlockSamples = 0
    /\ GetMomentaryLoudness = MinusHundred
    /\ GetShortTermLoudness = MinusHundred

\* The step leaves coefficients, weights, numChannels and samplesPerBlock
\* as they were.
ConfigurationKept ==
    UNCHANGED <<preFilterCoeffs, rlbFilterCoeffs, channelWeights,
                numChannels, samplesPerBlock>>

\* C25: when prepare() or reset() returns, whatever was processed before,
\* every filter state of both stages is zero, all ring slots, the ring
\* index, the block sum and the block sample count are 0 and both
\* readouts are -100; reset() leaves coefficients, channel weights,
\* numChannels and samplesPerBlock unchanged.
C25_ClearedAfterPrepareOrReset ==
    [][/\ lastCall'.op \in {"prepare", "meterReset"} => MeterCleared'
       /\ lastCall'.op = "meterReset" => ConfigurationKept]_vars

\* reset() has returned on a meter prepared for six channels at rate 10:
\* the state is cleared and the configuration of the prepare is still in
\* place.
C25_Witness ==
    /\ lastCall.op = "meterReset"
    /\ numChannels = 6
    /\ channelWeights[4] = 141
    /\ preFilterCoeffs # DefaultCoeffs
    /\ samplesPerBlock = 1
    /\ MeterCleared


\* kBlocksPerShortTerm or more blocks have completed since the last reset.
WarmedUp == Len(fed.completed) >= kBlocksPerShortTerm

\* Slot of the block completed i blocks ago (1: the most recent).
SlotOfCompleted(i) ==
    (currentBlockIndex - i + kBlocksPerShortTerm) % kBlocksPerShortTerm

\* The block being accumulated, as a mean square of the samples so far.
AccumulatingBlock ==
    IF currentBlockSamples = 0 THEN RatZero
    ELSE Rat(currentBlockSum, currentBlockSamples)

\* C26 as stated: after warm-up the history holds the
\* kBlocksPerShortTerm - 1 most recently completed blocks and, in the
\* remaining slot, the block being accumulated.
C26_OneCurrentPlusTwentyNine ==
    WarmedUp =>
        /\ \A i \in 1 .. (kBlocksPerShortTerm - 1) :
              meanSquareBlocks[SlotOfCompleted(i)] = LastCompleted(kBlocksPerShortTerm)[i]
        /\ meanSquareBlocks[currentBlockIndex] = AccumulatingBlock

\* C26 amended: after warm-up the history consists of exactly the
\* kBlocksPerShortTerm most recently completed blocks; the block being
\* accumulated is held outside the history, in currentBlockSum and
\* currentBlockSamples, with fewer than samplesPerBlock samples.
C26_ThirtyCompletedBlocks ==
    WarmedUp =>
        /\ \A i \in 1 .. kBlocksPerShortTerm :
              meanSquareBlocks[SlotOfCompleted(i)] = LastCompleted(kBlocksPerShortTerm)[i]
        /\ currentBlockSamples \in 0 .. (samplesPerBlock - 1)

\* After warm-up a block is under way: the slot at the ring index holds
\* the oldest of the completed blocks, which has energy, and the
\* accumulator holds one sample of silence.
C26_Witness ==
    /\ WarmedUp
    /\ samplesPerBlock = 2
    /\ currentBlockSamples = 1
    /\ currentBlockSum = 0
    /\ meanSquareBlocks[currentBlockIndex].num > 0
    /\ meanSquareBlocks[currentBlockIndex] = LastCompleted(kBlocksPerShortTerm)[kBlocksPerShortTerm]


\* C27: processBlock takes no lock and never waits: while it is under
\* way its next frame can always be processed, also while the control
\* thread holds processLock inside prepare() or reset(); it has taken one
\* step per frame processed and returns after as many steps as the buffer
\* has frames, however the control thread is scheduled; the readout
\* getters can always run.
C27_ProcessBlockNeverWaits ==
    /\ [](apc = "processing" => ENABLED AudioFrame)
    /\ [](aloc.steps + Len(aloc.buffer) = aloc.frames)
    /\ [](ENABLED ReadLoudness)
    /\ (apc = "processing") ~> (apc = "idle")

\* processBlock is in the middle of a buffer while the control thread is
\* inside reset() called from prepare(), holding processLock twice.
C27_Witness ==
    /\ apc = "processing"
    /\ aloc.steps > 0
    /\ processLock = 2
    /\ cpc = "clearBlocks"
    /\ lastCall.op = "getLoudness"


\* Pixel counts and time ranges selectLodLevel can be called with,
\* including none and negative ones.
AnyPixelCounts == (0 - 1) .. MaxPixels
AnyTimeRanges == (0 - 1) .. (AfterLast + 1 - VeryEarly)

\* The highest level k with (timeRange * updateRate / maxPixels) /
\* reductionFactor(k) >= 1.5 for maxPixels > 0, and 0 if there is none.
HighestLevelReaching(timeRange, maxPixels) ==
    LET reached == {k \in Levels :
                       2 * timeRange >= 3 * UnitsPerPoint * maxPixels
                                            * lodLevels[k].reductionFactor}
    IN  IF reached = {} THEN 0
        ELSE CHOOSE k \in reached : \A j \in reached : j <= k

\* C28: selectLodLevel(timeRange, maxPixels) is the highest level whose
\* effective points per pixel are at least 1.5, and level 0 when no level
\* reaches that or when maxPixels <= 0; it is always a valid level index
\* and does not decrease when timeRange grows with maxPixels fixed.
C28_SelectLodLevelContract ==
    \A maxPixels \in AnyPixelCounts : \A timeRange \in AnyTimeRanges :
        LET level == SelectLodLevel(lodLevels, timeRange, maxPixels)
        IN  /\ level \in Levels
            /\ level = IF maxPixels <= 0 THEN 0
                       ELSE HighestLevelReaching(timeRange, maxPixels)
            /\ (timeRange + 1) \in AnyTimeRanges =>
                  level <= SelectLodLevel(lodLevels, timeRange + 1, maxPixels)

\* A LOD-path query was answered from the coarsest level, which a shorter
\* range with the same pixel count would not have selected.
C28_Witness ==
    /\ lastCall.op = "query" /\ lastCall.path = "lod"
    /\ result.lodLevel = kLodLevels - 1
    /\ result.lodLevel
           = SelectLodLevel(lodLevels, lastCall.endTime - lastCall.startTime,
                            lastCall.maxPixels)
    /\ SelectLodLevel(lodLevels, UnitsPerPoint, lastCall.maxPixels) = 0


\* Numbers of the ingested points the ring retains: the most recent
\* min(pointCount, kRingBufferSize) ones.
Retained == Max(0, pointCount - kRingBufferSize) .. (pointCount - 1)

\* The retained points with a timestamp in the range of the last query.
RetainedInRange ==
    {i \in Retained :
        /\ ringBuffer[i % kRingBufferSize].timestamp >= lastCall.startTime
        /\ ringBuffer[i % kRingBufferSize].timestamp <= lastCall.endTime}

\* Some aggregate of r has the values of point p inside its envelope.
Aggregated(p, r) ==
    \E b \in 1 .. Len(r.minMaxPoints) :
        /\ r.minMaxPoints[b].minMomentary <= p.momentary
        /\ p.momentary <= r.minMaxPoints[b].maxMomentary
        /\ r.minMaxPoints[b].minShortTerm <= p.shortTerm
        /\ p.shortTerm <= r.minMaxPoints[b].maxShortTerm

\* C29: between operations writeIndex = pointCount mod kRingBufferSize
\* and, for each of the last min(pointCount, kRingBufferSize) point
\* numbers i, slot i mod kRingBufferSize holds the i-th ingested point,
\* whose timestamp is i / updateRate; a ring-path query returns the
\* retained points of its range, oldest first, or aggregates that cover
\* every one of them.
C29_RingRetention ==
    /\ writeIndex = pointCount % kRingBufferSize
    /\ \A i \in Retained :
          /\ ringBuffer[i % kRingBufferSize] \in ingested
          /\ ringBuffer[i % kRingBufferSize].timestamp = i * UnitsPerPoint
    /\ (lastCall.op = "query" /\ lastCall.path = "ring") =>
          IF result.useMinMax
          THEN /\ result.points = <<>>
               /\ \A i \in RetainedInRange :
                     Aggregated(ringBuffer[i % kRingBufferSize], result)
          ELSE /\ result.minMaxPoints = <<>>
               /\ Len(result.points) = Cardinality(RetainedInRange)
               /\ \A n \in 1 .. Len(result.points) :
                     \E i \in RetainedInRange :
                        /\ Cardinality({j \in RetainedInRange : j < i}) = n - 1
                        /\ result.points[n] = ringBuffer[i % kRingBufferSize]

\* The ring has wrapped and a ring-path query has returned two of the
\* three retained points, from the slots kRingBufferSize - 1 and 0.
C29_Witness ==
    /\ lastCall.op = "query" /\ lastCall.path = "ring"
    /\ pointCount > kRingBufferSize
    /\ writeIndex = 1
    /\ ~result.useMinMax
    /\ Len(result.points) = 2
    /\ result.points[1] = ringBuffer[kRingBufferSize - 1]
    /\ result.points[2] = ringBuffer[0]


\* The frames the step has fed: the end of the recorded stream.
FramesFed == SubSeq(fed'.stream, Len(fed.stream) + 1, Len(fed'.stream))

\* The meter m after the frames levels, of which the first is frame
\* number n of the stream, have been passed to processBlock in calls of
\* one frame each.
RECURSIVE FeedCallByCall(_, _, _)
FeedCallByCall(m, levels, n) ==
    IF levels = <<>> THEN m
    ELSE FeedCallByCall(
             ProcessSamples(m, <<SampleOf(Head(levels), n)>>, fed.bufferChannels),
             Tail(levels), n + 1)

\* C30: a call with several frames leaves the meter, readouts included,
\* as calls of one frame each with the same frames leave it, so that the
\* state after a stream of N frames does not depend on how it was split;
\* floor(N / samplesPerBlock) blocks have completed, the accumulator
\* carries the N mod samplesPerBlock frames left over between calls and
\* the ring index stays below kBlocksPerShortTerm; the readouts change
\* only in calls that complete a block.
C30_PartitionIndependence ==
    /\ [](/\ Len(fed.stream) = fed.frames
          /\ Len(fed.completed) = fed.frames \div samplesPerBlock
          /\ currentBlockSamples = fed.frames % samplesPerBlock
          /\ currentBlockSamples \in 0 .. (samplesPerBlock - 1)
          /\ currentBlockIndex = Len(fed.completed) % kBlocksPerShortTerm
          /\ currentBlockIndex \in BlockSlots)
    /\ [][lastCall'.op = "processBlock" =>
              /\ Meter' = FeedCallByCall(Meter, FramesFed, fed.frames)
              /\ BlocksOfStep = 0 =>
                     UNCHANGED <<momentaryLoudness, shortTermLoudness>>]_vars

\* More than kBlocksPerShortTerm blocks of two frames have been fed and
\* the last call ended inside a block, leaving a frame with energy in the
\* accumulator: the stream was split otherwise than at block boundaries.
C30_Witness ==
    /\ lastCall.op = "processBlock"
    /\ samplesPerBlock = 2
    /\ fed.frames >= kBlocksPerShortTerm * samplesPerBlock + 1
    /\ currentBlockSamples = 1
    /\ currentBlockSum > 0
    /\ fed.signal
    /\ ~GetShortTermLoudness.minus100


\* The call getDataForTimeRange(q) made in the current state.
Call(q) == GetDataForTimeRange(Store, q[1], q[2], q[3])

\* The elements of the set of numbers s in increasing order.
RECURSIVE Ascending(_)
Ascending(s) ==
    IF s = {} THEN <<>>
    ELSE LET least == CHOOSE i \in s : \A j \in s : i <= j
         IN  <<least>> \o Ascending(s \ {least})

\* The retained ring points stamped within [q[1], q[2]], oldest first,
\* each as the aggregate of itself.
RingSource(q) ==
    LET inRange == {i \in Retained :
                      /\ i * UnitsPerPoint >= q[1]
                      /\ i * UnitsPerPoint <= q[2]}
        order == Ascending(inRange)
    IN  [n \in 1 .. Len(order) |-> BucketOf(ringBuffer[order[n] % kRingBufferSize])]

\* The finalized buckets of level k of levels whose time-aligned span
\* [j * d, (j + 1) * d), d the bucket duration, meets the range of q.
LodSource(levels, k, q) ==
    LET d == UnitsPerPoint * levels[k].reductionFactor
        inRange == {j \in 0 .. (Len(levels[k].points) - 1) :
                      (j + 1) * d > q[1] /\ j * d < q[2]}
        order == Ascending(inRange)
    IN  [n \in 1 .. Len(order) |-> levels[k].points[order[n] + 1]]

\* What the call c of query q selected its result from.
SourceOf(c, q) ==
    IF c.path = "ring" THEN RingSource(q)
    ELSE IF c.path = "lod" THEN LodSource(c.lod.levels, c.result.lodLevel, q)
    ELSE <<>>

\* Minima and maxima over a sequence of aggregates.
EnvelopeOf(xs) ==
    [minMomentary |-> SeqMin([i \in 1 .. Len(xs) |-> xs[i].minMomentary]),
     maxMomentary |-> SeqMax([i \in 1 .. Len(xs) |-> xs[i].maxMomentary]),
     minShortTerm |-> SeqMin([i \in 1 .. Len(xs) |-> xs[i].minShortTerm]),
     maxShortTerm |-> SeqMax([i \in 1 .. Len(xs) |-> xs[i].maxShortTerm])]

\* out splits source into consecutive runs of s elements (the last run
\* may be shorter) and holds the envelope of each run, in order.
SplitsIntoRuns(out, source, s) ==
    /\ Len(out) = CeilDiv(Len(source), s)
    /\ \A b \in 1 .. Len(out) :
          EnvelopeOf(<<out[b]>>)
              = EnvelopeOf(SubSeq(source, (b - 1) * s + 1,
                                  Min(b * s, Len(source))))

\* C31: when a query finds more than 2 * maxPixels points (ring path) or
\* buckets (LOD path) in its range, it returns aggregates only; they are
\* the envelopes of consecutive runs that split the source, so that every
\* source element is in exactly one aggregate, the minimum of the
\* aggregates' minima and the maximum of their maxima are those of the
\* source, and every aggregate has min <= max.
C31_EnvelopePreserved ==
    \A q \in QueryArgs :
        LET c == Call(q)
            source == SourceOf(c, q)
            out == c.result
        IN  (c.path # "rejected" /\ Len(source) > 2 * q[3]) =>
               /\ out.points = <<>>
               /\ out.useMinMax
               /\ \E s \in 1 .. Len(source) :
                     SplitsIntoRuns(out.minMaxPoints, source, s)
               /\ EnvelopeOf(out.minMaxPoints) = EnvelopeOf(source)
               /\ \A b \in 1 .. Len(out.minMaxPoints) :
                     /\ out.minMaxPoints[b].minMomentary
                            <= out.minMaxPoints[b].maxMomentary
                     /\ out.minMaxPoints[b].minShortTerm
                            <= out.minMaxPoints[b].maxShortTerm

\* A ring-path query has returned aggregates that differ from one another
\* (the points it reduced were not all alike), and in the same state a
\* query of the LOD path finds more than 2 * maxPixels buckets of level 0
\* with different values in its range.
C31_Witness ==
    /\ lastCall.op = "query" /\ lastCall.path = "ring"
    /\ result.useMinMax
    /\ Len(result.minMaxPoints) >= 2
    /\ result.minMaxPoints[1].maxMomentary # result.minMaxPoints[2].maxMomentary
    /\ \E q \in QueryArgs :
          LET c == Call(q)
              source == SourceOf(c, q)
          IN  /\ c.path = "lod"
              /\ c.result.lodLevel = 0
              /\ Len(source) > 2 * q[3]
              /\ EnvelopeOf(source).minMomentary < EnvelopeOf(source).maxMomentary


\* The timestamps of s are strictly increasing.
StrictlyIncreasing(s) ==
    \A i \in 1 .. (Len(s) - 1) : s[i].timestamp < s[i + 1].timestamp

\* C32: the sequence a query returns is ordered oldest to newest: the
\* timestamps of consecutive raw points and of consecutive aggregates are
\* strictly increasing, on the ring path and on the LOD path.
C32_ResultOrdered ==
    lastCall.op = "query" =>
        /\ StrictlyIncreasing(result.points)
        /\ StrictlyIncreasing(result.minMaxPoints)


\* C33: the point a timer callback has passed to addPoint carries a
\* momentary and a short-term value published by the same completed
\* block, or the two values reset() stored.
C33_PairFromOneBlock ==
    lastCall.op = "timerCallback" =>
        lastCall.momentaryBlock = lastCall.shortTermBlock


\* The meter as a serial execution leaves it: reset, then fed the frames
\* processBlock has processed since, with the configuration it has now.
SeriallyFed == FeedCallByCall(ResetMeter(Meter), fed.stream, 0)

\* C34: prepare() and reset() are atomic with respect to processBlock:
\* whenever neither of them nor processBlock is under way, the meter is
\* in a state that reset() followed by the frames processed since
\* produces: filter states, ring, ring index, running sum, sample count
\* and readouts all stem from the frames fed after the reset, none from
\* frames before it and none is missing.
C34_ResetAtomic ==
    (cpc = "idle" /\ apc = "idle") => Meter = SeriallyFed


\* The query with the arguments start, end, n is answered without the LOD
\* levels: it is rejected, or it starts within the ring-buffer duration
\* before the current time.
AnsweredWithoutLod(start, end, n) ==
    \/ n <= 0
    \/ end <= start
    \/ start >= GetCurrentTime - kRingBufferSize * UnitsPerPoint

\* C35: a query never changes the ring buffer, writeIndex, pointCount or
\* the current time; a query that is rejected (maxPixels <= 0 or endTime
\* <= startTime) or answered from the ring buffer leaves every LOD level
\* and lastProcessedIndex unchanged as well.
C35_QueryFrame ==
    [][lastCall'.op = "query" =>
          /\ UNCHANGED <<ringBuffer, writeIndex, pointCount, currentTimestamp>>
          /\ AnsweredWithoutLod(lastCall'.startTime, lastCall'.endTime,
                                lastCall'.maxPixels)
                => (/\ UNCHANGED <<lodLevels, lastProcessedIndex>>
                    /\ lastCall'.path \in {"rejected", "ring"})]_vars

\* A ring-path query has returned points while the LOD levels, filled by
\* an earlier query, were behind the ring buffer: folding would have
\* changed them.
C35_Witness ==
    /\ lastCall.op = "query" /\ lastCall.path = "ring"
    /\ ~IsEmptyResult(result)
    /\ Len(lodLevels[0].points) >= 1
    /\ lastProcessedIndex # writeIndex


PointsFolded == Len(lodLevels[0].points)

\* Ring slots the while loop of processRingBufferToLOD visits when it is
\* entered in the current state.
SlotsToFold ==
    IF pointCount = 0 THEN 0
    ELSE (writeIndex + kRingBufferSize - lastProcessedIndex) % kRingBufferSize

ContainsAccepted(p, samples) ==
    \A i \in 1 .. Len(samples) :
        /\ samples[i][1] > -100 =>
              (p.momentaryMin <= samples[i][1] /\ samples[i][1] <= p.momentaryMax)
        /\ samples[i][2] > -100 =>
              (p.shortTermMin <= samples[i][2] /\ samples[i][2] <= p.shortTermMax)

\* C38: for aggregates a and b built from fresh ones by addSample, after
\* a.merge(b) the momentary and the short-term interval of a contain
\* every accepted sample of a and of b, and the min/max fields of a are
\* those b.merge(a) gives b.
C38_MergePreservesEnvelope ==
    aggA.merged =>
        /\ ContainsAccepted(aggA.point, aggA.samples)
        /\ aggA.point.momentaryMin = aggB.point.momentaryMin
        /\ aggA.point.momentaryMax = aggB.point.momentaryMax
        /\ aggA.point.shortTermMin = aggB.point.shortTermMin
        /\ aggA.point.shortTermMax = aggB.point.shortTermMax

====
